---- MODULE Spec2Model ----
(***************************************************************************)
(* Model of the music-dedupe core (src/app/core.py, with the clustering    *)
(* pass of src/app/core_optimized.py next to it): the metadata store, the  *)
(* scanner with its in-memory working set, the clustering pass, the AI     *)
(* analysis, the maintenance jobs, the scheduler and the metadata edits.    *)
(*                                                                         *)
(* The specifications share the variables:                                 *)
(*   SpecStore    calls on MetadataDB alone (save_metadata, batch_save,    *)
(*                delete_by_path, delete_batch, clear_all);                *)
(*   Spec         scan threads started by POST /api/scan, interleaved at   *)
(*                the granularity of one loop iteration of                 *)
(*                task_scan_and_group, over a small file tree;             *)
(*   SpecCluster  the sort + anchored pass over every small input list;    *)
(*   SpecAnalyze  one analysis at a time, over every answer of the         *)
(*                classification service;                                  *)
(*   SpecOverlap  analyses and a scan started while others run;            *)
(*   SpecJobs     quality dedup and short-clip purge over a small library; *)
(*   SpecUpkeep   the four maintenance jobs run one after another, with    *)
(*                side files and directories;                              *)
(*   SpecConfig   the task configuration, its saves, the triggers and the  *)
(*                manual and cron runs of run_task_wrapper;                *)
(*   SpecExtract  the extractor on one file of any name and tags;          *)
(*   SpecEdit     scans, metadata edits and renames over a small library;  *)
(*   SpecDelete   delete_file and the purging jobs over a scanned library; *)
(*   SpecRace     two runs of quality dedup that overlap, stepped one      *)
(*                file access at a time.                                   *)
(*                                                                         *)
(* Strings.  A path is a sequence of one-character strings, so that        *)
(* str.startswith is the prefix test on sequences.  Titles and             *)
(* search texts are abstract, already lower-cased and stripped strings,    *)
(* numbered in lexicographic order.  thefuzz is a library outside the      *)
(* repository: its scores are inputs (the variable score), symmetric and   *)
(* 100 on equal strings.                                                   *)
(***************************************************************************)
EXTENDS Integers, Sequences, FiniteSets, TLC

VARIABLES
    db,          \* rows of the metadata table (a set of records)
    last,        \* history: path -> the record of its latest committed upsert
    call,        \* history: the latest MetadataDB call, with the store before it
    disk,        \* the audio files present on disk
    files,       \* state.files, the working set (a list)
    candidates,  \* state.candidates
    status,      \* state.status
    sc,          \* per scan thread: position and locals of task_scan_and_group
    started,     \* number of scans started so far
    score,       \* thefuzz scores of the pairs of distinct strings
    cl,          \* the clustering pass being stepped (SpecCluster)
    results,     \* state.results
    an,          \* the analysis side: api key, analysis threads, request log
    mj,          \* the maintenance jobs: their file tree and job threads
    cfg          \* the configuration: memory, file, triggers and requests

vars == <<db, last, call, disk, files, candidates, status, sc, started, score, cl,
          results, an, mj, cfg>>

-----------------------------------------------------------------------------
(* Bounds *)

\* core.py:41 sets BATCH_SIZE = 100; the model scales the batch down so that
\* full batches, a trailing partial batch and a failed flush all occur.
BATCH_SIZE == 2
\* scans started in one behaviour
MaxScans == 2
\* records of one MetadataDB.batch_save / delete_batch call (SpecStore)
MaxBatch == 2
\* records given to the clustering pass (SpecCluster)
MaxLen == 3

-----------------------------------------------------------------------------
(* Sequences *)

Range(s) == {s[i] : i \in 1..Len(s)}

SelectPos(s, Keep(_)) ==
    LET F[i \in 0..Len(s)] ==
            IF i = 0 THEN <<>>
            ELSE IF Keep(s[i]) THEN Append(F[i-1], s[i]) ELSE F[i-1]
    IN F[Len(s)]

\* str.startswith
startswith(s, prefix) ==
    /\ Len(prefix) <= Len(s)
    /\ SubSeq(s, 1, Len(prefix)) = prefix

\* os.path.basename: what follows the last "/"
basename(p) ==
    LET slashes == {i \in 1..Len(p) : p[i] = "/"}
        k == IF slashes = {} THEN 0 ELSE CHOOSE i \in slashes : \A j \in slashes : j <= i
    IN SubSeq(p, k + 1, Len(p))

-----------------------------------------------------------------------------
(* The file tree *)

\* /r and /r2 are sibling directories; the string "/r" is a prefix of "/r2"
Rock  == <<"/", "r">>
Rock2 == <<"/", "r", "2">>
ScanDirs == {Rock, Rock2}

RockA  == Rock  \o <<"/", "a">>
RockB  == Rock  \o <<"/", "b">>
RockC  == Rock  \o <<"/", "c">>
Rock2A == Rock2 \o <<"/", "a">>
AllFiles == {RockA, RockB, RockC, Rock2A}

\* a file is located under a directory: os.walk(dir) can yield it
Under(p, dir) == startswith(p, dir \o <<"/">>)

\* os.walk order, fixed
WalkOrder == <<RockA, RockB, RockC, Rock2A>>

-----------------------------------------------------------------------------
(* Records *)

\* the SQL NULL, as a filename no file has
NULL == <<"NULL">>
Titles == 1..3
Texts == 1..2

\* the tags read from a file: /r/a and /r/b carry the same title
TitleOf(p) == IF p \in {RockA, RockB} THEN 1 ELSE IF p = RockC THEN 2 ELSE 3
TextOf(p)  == IF p \in {RockA, RockB} THEN 1 ELSE 2

MakeRecord(p, fn, t, s) == [path |-> p, filename |-> fn, title |-> t, search_text |-> s]

\* history value of a path that was never upserted
NoRow == MakeRecord(<<>>, <<>>, 0, 0)

-----------------------------------------------------------------------------
(* MetadataDB: the table is a set of rows *)

\* schema: filename TEXT NOT NULL; INSERT OR REPLACE of a NULL filename aborts
\* the statement with an IntegrityError
RowRejected(m) == m.filename = NULL

\* INSERT OR REPLACE without the replace: a second row for the path
InsertKeepsOld(rows, m) == rows \cup {m}

\* INSERT OR REPLACE INTO metadata, path being the PRIMARY KEY
InsertOrReplace(rows, m) == {r \in rows : r.path # m.path} \cup {m}

\* the first record of the batch whose INSERT raises, 0 if none does: a record
\* the schema rejects, or the statement the environment fails (failAt, 0 for none)
FirstFailure(metadata_list, failAt) ==
    LET bad == {i \in 1..Len(metadata_list) : RowRejected(metadata_list[i]) \/ i = failAt}
    IN IF bad = {} THEN 0 ELSE CHOOSE i \in bad : \A j \in bad : i <= j

\* the open transaction after the first n INSERTs of the batch
Txn(rows, metadata_list, n) ==
    LET F[i \in 0..n] == IF i = 0 THEN rows ELSE InsertOrReplace(F[i-1], metadata_list[i])
    IN F[n]

\* a rollback that keeps what the transaction had written
RollbackKeepsPartial(before, txn) == txn

\* conn.rollback()
Rollback(before, txn) == before

\* MetadataDB.batch_save: the rows afterwards and whether the call raised
batch_save(rows, metadata_list, failAt) ==
    LET k == FirstFailure(metadata_list, failAt)
    IN IF metadata_list = <<>> THEN [rows |-> rows, raised |-> FALSE]
       ELSE IF k # 0
            THEN [rows |-> Rollback(rows, Txn(rows, metadata_list, k - 1)), raised |-> TRUE]
            ELSE [rows |-> Txn(rows, metadata_list, Len(metadata_list)), raised |-> FALSE]

\* MetadataDB.save_metadata: one INSERT OR REPLACE, then commit
save_metadata(rows, meta, fail) ==
    IF fail \/ RowRejected(meta)
    THEN [rows |-> rows, raised |-> TRUE]
    ELSE [rows |-> InsertOrReplace(rows, meta), raised |-> FALSE]

\* MetadataDB.delete_by_path
delete_by_path(rows, path) == {r \in rows : r.path # path}

\* MetadataDB.delete_batch
delete_batch(rows, paths) ==
    IF paths = <<>> THEN rows ELSE {r \in rows : r.path \notin Range(paths)}

\* MetadataDB.clear_all
clear_all(rows) == {}

\* history: the latest upsert of each path after a committed list of upserts
LastAfter(l, metadata_list) ==
    LET F[i \in 0..Len(metadata_list)] ==
            IF i = 0 THEN l ELSE [F[i-1] EXCEPT ![metadata_list[i].path] = metadata_list[i]]
    IN F[Len(metadata_list)]

-----------------------------------------------------------------------------
(* SpecStore: any sequence of calls on the store *)

StorePaths == {RockA, Rock2A}
\* two versions of the fields of /r/a, one of /r2/a, and a record the schema rejects
StoreRecords ==
    { MakeRecord(RockA, basename(RockA), 1, TextOf(RockA)),
      MakeRecord(RockA, basename(RockA), 2, TextOf(RockA)),
      MakeRecord(Rock2A, basename(Rock2A), 1, TextOf(Rock2A)),
      MakeRecord(RockA, NULL, 1, TextOf(RockA)) }

SeqsUpTo(S, n) == UNION {[1..k -> S] : k \in 0..n}

NoCall == [op |-> "none", list |-> <<>>, failAt |-> 0, before |-> {}, raised |-> FALSE]

InitStore ==
    /\ db = {}
    /\ last = [p \in AllFiles |-> NoRow]
    /\ call = NoCall
    /\ disk = AllFiles
    /\ files = <<>>
    /\ candidates = <<>>
    /\ status = "idle"
    /\ sc = <<>>
    /\ started = 0
    /\ score = <<>>
    /\ cl = <<>>
    /\ results = <<>>
    /\ an = <<>>
    /\ mj = <<>>
    /\ cfg = <<>>

StoreFrame == UNCHANGED <<disk, files, candidates, status, sc, started, score, cl, results, an, mj, cfg>>

SaveMetadata ==
    \E meta \in StoreRecords, fail \in BOOLEAN :
        LET res == save_metadata(db, meta, fail)
        IN /\ db' = res.rows
           /\ last' = IF res.raised THEN last ELSE LastAfter(last, <<meta>>)
           /\ call' = [op |-> "save_metadata", list |-> <<meta>>,
                       failAt |-> IF fail THEN 1 ELSE 0, before |-> db, raised |-> res.raised]
           /\ StoreFrame

BatchSave ==
    \E metadata_list \in SeqsUpTo(StoreRecords, MaxBatch) :
      \E failAt \in 0..Len(metadata_list) :
        LET res == batch_save(db, metadata_list, failAt)
        IN /\ db' = res.rows
           /\ last' = IF res.raised THEN last ELSE LastAfter(last, metadata_list)
           /\ call' = [op |-> "batch_save", list |-> metadata_list,
                       failAt |-> failAt, before |-> db, raised |-> res.raised]
           /\ StoreFrame

DeleteByPath ==
    \E path \in StorePaths :
        /\ db' = delete_by_path(db, path)
        /\ call' = [op |-> "delete_by_path", list |-> <<path>>,
                    failAt |-> 0, before |-> db, raised |-> FALSE]
        /\ UNCHANGED last
        /\ StoreFrame

DeleteBatch ==
    \E paths \in SeqsUpTo(StorePaths, MaxBatch) :
        /\ db' = delete_batch(db, paths)
        /\ call' = [op |-> "delete_batch", list |-> paths,
                    failAt |-> 0, before |-> db, raised |-> FALSE]
        /\ UNCHANGED last
        /\ StoreFrame

ClearAll ==
    /\ db' = clear_all(db)
    /\ call' = [op |-> "clear_all", list |-> <<>>, failAt |-> 0, before |-> db, raised |-> FALSE]
    /\ UNCHANGED last
    /\ StoreFrame

NextStore == SaveMetadata \/ BatchSave \/ DeleteByPath \/ DeleteBatch \/ ClearAll

SpecStore == InitStore /\ [][NextStore]_vars

-----------------------------------------------------------------------------
(* Clustering: sort, then one pass anchored at the first member of the group *)

\* core.py:696, `if similarity > 85`
RATIO_THRESHOLD == 85
\* core_optimized.py:332, `> 80`
TOKEN_SET_THRESHOLD == 80

\* fuzz.ratio on two title keys
ratio(a, b) == IF a = b THEN 100 ELSE score.ratio[{a, b}]

\* fuzz.token_set_ratio on two search texts
token_set_ratio(a, b) == IF a = b THEN 100 ELSE score.token_set[{a, b}]

\* core.py: (x.get('title') or stem).lower().strip(); extract has already
\* replaced an empty title by the stem, and the model's titles are normalised
TitleKey(x) == x.title

\* core_optimized.py: key=lambda x: x['search_text']
TextKey(x) == x.search_text

\* sorted(list, key=...): stable, ascending; key[x] is the key of the record x
SortBy(s, key) ==
    LET Insert(t, x) ==
            LET after == {j \in 1..Len(t) : key[t[j]] > key[x]}
                k == IF after = {} THEN Len(t) + 1
                     ELSE CHOOSE j \in after : \A h \in after : j <= h
            IN SubSeq(t, 1, k - 1) \o <<x>> \o SubSeq(t, k, Len(t))
        F[i \in 0..Len(s)] == IF i = 0 THEN <<>> ELSE Insert(F[i-1], s[i])
    IN F[Len(s)]

\* core.py: similarity of the anchor and the visited record
Similarity(prev, curr) == ratio(TitleKey(prev), TitleKey(curr))

\* core_optimized.py: similarity of the anchor and the visited record
SimilarityOpt(prev, curr) == token_set_ratio(TextKey(prev), TextKey(curr))

\* mutant: a pass that compares with the record visited last
GroupStepChained(g, curr) ==
    IF Similarity(g.current_group[Len(g.current_group)], curr) > RATIO_THRESHOLD
    THEN [g EXCEPT !.current_group = Append(@, curr)]
    ELSE [current_group |-> <<curr>>,
          candidates |-> IF Len(g.current_group) > 1
                         THEN Append(g.candidates, g.current_group)
                         ELSE g.candidates]

\* one iteration of the pass of core.py over the record curr
GroupStep(g, curr) ==
    IF Similarity(g.current_group[1], curr) > RATIO_THRESHOLD
    THEN [g EXCEPT !.current_group = Append(@, curr)]
    ELSE [current_group |-> <<curr>>,
          candidates |-> IF Len(g.current_group) > 1
                         THEN Append(g.candidates, g.current_group)
                         ELSE g.candidates]

\* one iteration of the pass of core_optimized.py over the record curr
GroupStepOpt(g, curr) ==
    IF SimilarityOpt(g.current_group[1], curr) > TOKEN_SET_THRESHOLD
    THEN [g EXCEPT !.current_group = Append(@, curr)]
    ELSE [current_group |-> <<curr>>,
          candidates |-> IF Len(g.current_group) > 1
                         THEN Append(g.candidates, g.current_group)
                         ELSE g.candidates]

\* a pass that forgets the group still open when the loop ends
FlushDropsTrailing(g) == g.candidates

\* the trailing group, after the loop
FlushGroup(g) ==
    IF Len(g.current_group) > 1 THEN Append(g.candidates, g.current_group) ELSE g.candidates

\* core.py:675-704, the candidates of the records to check
cluster(files_to_check) ==
    IF files_to_check = <<>> THEN <<>>
    ELSE LET sorted_files == SortBy(files_to_check, [x \in Range(files_to_check) |-> TitleKey(x)])
             F[i \in 1..Len(sorted_files)] ==
                 IF i = 1 THEN [current_group |-> <<sorted_files[1]>>, candidates |-> <<>>]
                 ELSE GroupStep(F[i-1], sorted_files[i])
         IN FlushGroup(F[Len(sorted_files)])

\* core_optimized.py:322-340
cluster_optimized(all_files) ==
    IF all_files = <<>> THEN <<>>
    ELSE LET sorted_files == SortBy(all_files, [x \in Range(all_files) |-> TextKey(x)])
             F[i \in 1..Len(sorted_files)] ==
                 IF i = 1 THEN [current_group |-> <<sorted_files[1]>>, candidates |-> <<>>]
                 ELSE GroupStepOpt(F[i-1], sorted_files[i])
         IN FlushGroup(F[Len(sorted_files)])

\* the pairs of distinct strings of a set
Pairs(S) == {{a, b} : a, b \in S} \ {{a} : a \in S}

-----------------------------------------------------------------------------
(* Spec: scans started through POST /api/scan *)

Workers == {"w1", "w2"}

\* get_metadata(f_path): the record extracted from a file
get_metadata(p) == MakeRecord(p, basename(p), TitleOf(p), TextOf(p))

\* file_generator(scan_dir): the audio files under the directory, in walk order
file_generator(scan_dir, onDisk) ==
    LET Yielded(p) == p \in onDisk /\ Under(p, scan_dir) IN SelectPos(WalkOrder, Yielded)

Idle == [pc |-> "ready", scan_dir |-> <<>>, todo |-> <<>>, batch |-> <<>>,
         listed |-> {}, failed |-> {}, flushes |-> <<>>, alone |-> TRUE]

Running(t) == sc[t].pc \in {"loop", "cluster"}

Paths(list) == {list[i].path : i \in 1..Len(list)}

\* the records the comprehension of line 642 keeps
KeepFiles(list, scan_dir) ==
    LET Kept(f) == ~startswith(f.path, scan_dir) IN SelectPos(list, Kept)

\* the records line 676 hands to the clustering pass
FilesToCheck(list, scan_dir) ==
    LET Checked(f) == startswith(f.path, scan_dir) IN SelectPos(list, Checked)

Init ==
    /\ db = {}
    /\ last = [p \in AllFiles |-> NoRow]
    /\ call = NoCall
    /\ disk = AllFiles
    /\ files = <<>>
    /\ candidates = <<>>
    /\ status = "idle"
    /\ sc = [t \in Workers |-> Idle]
    /\ started = 0
    /\ score = [ratio |-> [pr \in Pairs(Titles) |-> 50], token_set |-> [pr \in Pairs(Texts) |-> 50]]
    /\ cl = <<>>
    /\ results = <<>>
    /\ an = <<>>
    /\ mj = <<>>
    /\ cfg = <<>>

\* main.scan_files starts a thread whatever the status; the thread runs
\* task_scan_and_group up to the for loop (lines 638-649)
ScanEnter(t, target_path) ==
    /\ sc[t].pc = "ready"
    \* threads are interchangeable: the new scan takes the first free worker
    /\ t = "w1" \/ sc["w1"].pc # "ready"
    /\ started < MaxScans
    /\ started' = started + 1
    /\ status' = "scanning"
    /\ files' = KeepFiles(files, target_path)
    /\ candidates' = <<>>
    /\ results' = <<>>
    /\ LET others == \E u \in Workers \ {t} : Running(u)
       IN sc' = [u \in Workers |->
                   IF u = t
                   THEN [pc |-> "loop", scan_dir |-> target_path,
                         todo |-> file_generator(target_path, disk), batch |-> <<>>,
                         listed |-> {p \in disk : Under(p, target_path)},
                         failed |-> {}, flushes |-> <<>>, alone |-> ~others]
                   ELSE IF Running(u) THEN [sc[u] EXCEPT !.alone = FALSE] ELSE sc[u]]
    /\ UNCHANGED <<db, last, call, disk, score, cl, an, mj, cfg>>

\* an extraction error that ends the loop
AbortLoop(rest) == <<>>

\* except Exception: state.log(...), and the loop goes on with the next file
AfterExtractError(rest) == rest

\* one iteration of the for loop (lines 651-664): extract, and flush a full batch
ScanFile(t, extracted, failAt) ==
    /\ sc[t].pc = "loop"
    /\ sc[t].todo # <<>>
    /\ LET f_path == Head(sc[t].todo)
           rest == Tail(sc[t].todo)
           batch == Append(sc[t].batch, get_metadata(f_path))
       IN IF ~extracted
          THEN \* get_metadata raised: logged, next file
               /\ failAt = 0
               /\ sc' = [sc EXCEPT ![t].todo = AfterExtractError(rest),
                                     ![t].failed = @ \cup {f_path}]
               /\ UNCHANGED <<files, db>>
          ELSE IF Len(batch) >= BATCH_SIZE
          THEN LET res == batch_save(db, batch, failAt)
               IN /\ failAt \in 0..Len(batch)
                  /\ files' = files \o batch
                  /\ db' = res.rows
                  /\ sc' = [sc EXCEPT
                              ![t].todo = rest,
                              ![t].flushes = Append(@, [paths |-> Paths(batch), ok |-> ~res.raised]),
                              \* batch_save raised: `batch = []` is skipped
                              ![t].batch = IF res.raised THEN batch ELSE <<>>]
          ELSE /\ failAt = 0
               /\ sc' = [sc EXCEPT ![t].todo = rest, ![t].batch = batch]
               /\ UNCHANGED <<files, db>>
    /\ UNCHANGED <<last, call, disk, candidates, status, started, score, cl, results, an, mj, cfg>>

\* after the loop (lines 667-672): the trailing batch, outside any try
ScanTrailing(t, failAt) ==
    /\ sc[t].pc = "loop"
    /\ sc[t].todo = <<>>
    /\ LET batch == sc[t].batch
           res == batch_save(db, batch, failAt)
       IN IF batch = <<>>
          THEN /\ failAt = 0
               /\ sc' = [sc EXCEPT ![t].pc = "cluster"]
               /\ UNCHANGED <<files, db>>
          ELSE /\ failAt \in 0..Len(batch)
               /\ files' = files \o batch
               /\ db' = res.rows
               /\ sc' = [sc EXCEPT
                           ![t].flushes = Append(@, [paths |-> Paths(batch), ok |-> ~res.raised]),
                           \* the exception leaves task_scan_and_group: the thread dies
                           ![t].pc = IF res.raised THEN "crashed" ELSE "cluster"]
    /\ UNCHANGED <<last, call, disk, candidates, status, started, score, cl, results, an, mj, cfg>>

\* the clustering pass and the exit (lines 675-709)
ScanCluster(t) ==
    /\ sc[t].pc = "cluster"
    /\ candidates' = cluster(FilesToCheck(files, sc[t].scan_dir))
    /\ status' = "idle"
    /\ sc' = [sc EXCEPT ![t].pc = "done"]
    /\ UNCHANGED <<db, last, call, disk, files, started, score, cl, results, an, mj, cfg>>

\* the thread object of a finished scan is gone
ScanJoin(t) ==
    /\ sc[t].pc \in {"done", "crashed"}
    /\ sc' = [sc EXCEPT ![t] = Idle]
    /\ UNCHANGED <<db, last, call, disk, files, candidates, status, started, score, cl, results, an, mj, cfg>>

\* the user removes a file from the library while no scan runs
Removable == {RockB}

RemoveFile(p) ==
    /\ p \in disk
    /\ \A t \in Workers : sc[t].pc = "ready"
    /\ disk' = disk \ {p}
    /\ UNCHANGED <<db, last, call, files, candidates, status, sc, started, score, cl, results, an, mj, cfg>>

Next ==
    \/ \E t \in Workers, target_path \in ScanDirs : ScanEnter(t, target_path)
    \/ \E t \in Workers, extracted \in BOOLEAN, failAt \in 0..BATCH_SIZE :
           ScanFile(t, extracted, failAt)
    \/ \E t \in Workers, failAt \in 0..BATCH_SIZE : ScanTrailing(t, failAt)
    \/ \E t \in Workers : ScanCluster(t)
    \/ \E t \in Workers : ScanJoin(t)
    \/ \E p \in Removable : RemoveFile(p)

Spec == Init /\ [][Next]_vars

-----------------------------------------------------------------------------
(* C1: the store holds at most one row per path, and the row of a path is   *)
(* the record of the most recent committed upsert of that path.             *)
C1_OneRowPerPathLatestWins ==
    /\ \A r1, r2 \in db : r1.path = r2.path => r1 = r2
    /\ \A r \in db : r = last[r.path]

\* a path upserted twice with different fields, once of them inside one batch
C1_Witness ==
    /\ call.op = "batch_save"
    /\ ~call.raised
    /\ Len(call.list) = 2
    /\ call.list[1].path = call.list[2].path
    /\ call.list[1] # call.list[2]
    /\ \E r \in call.before : r.path = call.list[1].path /\ r # call.list[2]
    /\ call.list[2] \in db

(* C2: batch_save is all-or-nothing.  If the write of a record of the batch *)
(* fails, the store is what it was before the call and the call raises; if  *)
(* none fails, every record of the batch is present and the call returns.   *)
BatchFailed(c) == c.failAt # 0 \/ \E i \in 1..Len(c.list) : RowRejected(c.list[i])

C2_BatchAllOrNothing ==
    call.op = "batch_save" =>
        IF BatchFailed(call)
        THEN db = call.before /\ call.raised
        ELSE /\ ~call.raised
             /\ \A i \in 1..Len(call.list) :
                   \E r \in db : /\ r.path = call.list[i].path
                                 /\ \/ r = call.list[i]
                                    \/ \E j \in (i+1)..Len(call.list) : r = call.list[j]

\* a batch whose second record fails after the first one was written
C2_Witness ==
    /\ call.op = "batch_save"
    /\ call.raised
    /\ FirstFailure(call.list, call.failAt) = 2
    /\ call.list[1] \notin call.before
    /\ db = call.before

-----------------------------------------------------------------------------
(* Claims about the scanner, under Spec *)

AddedBy(t) == UNION {sc[t].flushes[i].paths : i \in 1..Len(sc[t].flushes)}
AllFlushesOk(t) == \A i \in 1..Len(sc[t].flushes) : sc[t].flushes[i].ok

(* C3: the working set never holds two records with the same path.          *)
C3_NoDuplicatePaths ==
    \A i, j \in 1..Len(files) : files[i].path = files[j].path => i = j

(* C4: a step of a scan of directory d leaves unchanged every working-set   *)
(* record and every store row of a file that is not located under d.        *)
StepOf(t) ==
    /\ [sc[t] EXCEPT !.alone = TRUE] # [sc'[t] EXCEPT !.alone = TRUE]
    /\ sc'[t].pc # "ready"

OutsideFiles(list, d) == LET Out(f) == ~Under(f.path, d) IN SelectPos(list, Out)
OutsideRows(rows, d) == {r \in rows : ~Under(r.path, d)}

C4_ScanLeavesOthersUnchanged ==
    [][\A t \in Workers :
          StepOf(t) =>
              /\ OutsideFiles(files', sc'[t].scan_dir) = OutsideFiles(files, sc'[t].scan_dir)
              /\ OutsideRows(db', sc'[t].scan_dir) = OutsideRows(db, sc'[t].scan_dir)]_vars

\* the step in which the scan of thread t completes
Completes(t) == sc[t].pc = "cluster" /\ sc'[t].pc = "done"

(* C5: when a rescan of a directory completes, neither the working set nor  *)
(* the store holds a record under it of a file that is not on disk.         *)
C5_RescanDropsStale ==
    [][\A t \in Workers :
          Completes(t) =>
              \A r \in Range(files') \cup db' :
                  Under(r.path, sc[t].scan_dir) => r.path \in disk']_vars

(* C6: a scan never leaves status stuck at scanning: when no scan thread    *)
(* is running any more, status is idle.                                     *)
C6_StatusBackToIdle ==
    (\A t \in Workers : ~Running(t)) => status = "idle"

C8_FailedBatchNotResubmitted ==
    \A t \in Workers :
        \A i, j \in 1..Len(sc[t].flushes) :
            (i < j /\ ~sc[t].flushes[i].ok) =>
                sc[t].flushes[i].paths \cap sc[t].flushes[j].paths = {}

-----------------------------------------------------------------------------
(* SpecCluster: the two clustering passes, stepped, over every input list   *)
(* of at most MaxLen records and every table of scores                      *)

\* scores on both sides of each threshold
RatioScores == {80, 85, 86}
TokenSetScores == {80, 81}

\* the i-th record of an input list is the i-th file of the walk
ClusterInputs ==
    UNION {[1..n -> [title : Titles, search_text : Texts]] : n \in 0..MaxLen}

InputRecord(i, x) == MakeRecord(WalkOrder[i], basename(WalkOrder[i]), x.title, x.search_text)

NoGroup == [current_group |-> <<>>, candidates |-> <<>>]

InitCluster ==
    /\ db = {}
    /\ last = [p \in AllFiles |-> NoRow]
    /\ call = NoCall
    /\ disk = AllFiles
    /\ files = <<>>
    /\ candidates = <<>>
    /\ status = "scanning"
    /\ sc = <<>>
    /\ started = 0
    /\ \E r \in [Pairs(Titles) -> RatioScores], ts \in [Pairs(Texts) -> TokenSetScores] :
           score = [ratio |-> r, token_set |-> ts]
    /\ \E in \in ClusterInputs :
           cl = [pc |-> "core", input |-> [i \in 1..Len(in) |-> InputRecord(i, in[i])],
                 sorted_files |-> <<>>, i |-> 0, g |-> NoGroup, candidates_opt |-> <<>>]
    /\ results = <<>>
    /\ an = <<>>
    /\ mj = <<>>
    /\ cfg = <<>>

ClusterFrame == UNCHANGED <<db, last, call, disk, files, status, sc, started, score, results, an, mj, cfg>>

\* core.py:678-684
CoreStart ==
    /\ cl.pc = "core"
    /\ IF cl.input = <<>>
       THEN /\ candidates' = <<>>
            /\ cl' = [cl EXCEPT !.pc = "opt"]
       ELSE LET sorted_files == SortBy(cl.input, [x \in Range(cl.input) |-> TitleKey(x)])
            IN /\ cl' = [cl EXCEPT !.pc = "core_loop", !.sorted_files = sorted_files, !.i = 2,
                                   !.g = [current_group |-> <<sorted_files[1]>>,
                                          candidates |-> <<>>]]
               /\ UNCHANGED candidates
    /\ ClusterFrame

\* core.py:686-701, one iteration
CoreStep ==
    /\ cl.pc = "core_loop"
    /\ cl.i <= Len(cl.sorted_files)
    /\ cl' = [cl EXCEPT !.g = GroupStep(cl.g, cl.sorted_files[cl.i]), !.i = cl.i + 1]
    /\ UNCHANGED candidates
    /\ ClusterFrame

\* core.py:703-706
CoreFinish ==
    /\ cl.pc = "core_loop"
    /\ cl.i > Len(cl.sorted_files)
    /\ candidates' = FlushGroup(cl.g)
    /\ cl' = [cl EXCEPT !.pc = "opt", !.g = NoGroup, !.sorted_files = <<>>, !.i = 0]
    /\ ClusterFrame

\* core_optimized.py:322-326
OptStart ==
    /\ cl.pc = "opt"
    /\ IF cl.input = <<>>
       THEN cl' = [cl EXCEPT !.pc = "done"]
       ELSE LET sorted_files == SortBy(cl.input, [x \in Range(cl.input) |-> TextKey(x)])
            IN cl' = [cl EXCEPT !.pc = "opt_loop", !.sorted_files = sorted_files, !.i = 2,
                                !.g = [current_group |-> <<sorted_files[1]>>,
                                       candidates |-> <<>>]]
    /\ UNCHANGED candidates
    /\ ClusterFrame

\* core_optimized.py:327-337, one iteration
OptStep ==
    /\ cl.pc = "opt_loop"
    /\ cl.i <= Len(cl.sorted_files)
    /\ cl' = [cl EXCEPT !.g = GroupStepOpt(cl.g, cl.sorted_files[cl.i]), !.i = cl.i + 1]
    /\ UNCHANGED candidates
    /\ ClusterFrame

\* core_optimized.py:339-342
OptFinish ==
    /\ cl.pc = "opt_loop"
    /\ cl.i > Len(cl.sorted_files)
    /\ cl' = [cl EXCEPT !.pc = "done", !.candidates_opt = FlushGroup(cl.g),
                        !.g = NoGroup, !.sorted_files = <<>>, !.i = 0]
    /\ UNCHANGED candidates
    /\ ClusterFrame

NextCluster == CoreStart \/ CoreStep \/ CoreFinish \/ OptStart \/ OptStep \/ OptFinish

SpecCluster == InitCluster /\ [][NextCluster]_vars

-----------------------------------------------------------------------------
(* Claims about the clustering pass, under SpecCluster *)

\* the record visited by a step of either pass joined the current group
Visits == cl.pc \in {"core_loop", "opt_loop"} /\ cl'.i = cl.i + 1
Joined == cl'.g.current_group = Append(cl.g.current_group, cl.sorted_files[cl.i])
AnchorScore ==
    IF cl.pc = "core_loop"
    THEN Similarity(cl.g.current_group[1], cl.sorted_files[cl.i])
    ELSE SimilarityOpt(cl.g.current_group[1], cl.sorted_files[cl.i])

(* C9: the visited record is appended to the current group exactly when    *)
(* its similarity score against the group's anchor is greater than 80.      *)
C9_JoinsIffAbove80 ==
    [][Visits => (Joined <=> AnchorScore > 80)]_vars

(* C10: whatever the order of the input, two records with the same          *)
(* search_text are members of one candidate group.                          *)
SameGroup(groups, x, y) ==
    \E k \in 1..Len(groups) : x \in Range(groups[k]) /\ y \in Range(groups[k])

C10_SameTextSameGroup ==
    cl.pc = "done" =>
        \A i, j \in 1..Len(cl.input) :
            (i # j /\ cl.input[i].search_text = cl.input[j].search_text) =>
                /\ SameGroup(candidates, cl.input[i], cl.input[j])
                /\ SameGroup(cl.candidates_opt, cl.input[i], cl.input[j])

(* C11: every emitted candidate group has at least 2 members, and the       *)
(* group still open when the pass of core.py ends is emitted exactly when   *)
(* it has at least 2 members.                                               *)
CoreFinishes == cl.pc = "core_loop" /\ cl'.pc = "opt"

C11_GroupsOfTwoOrMore ==
    [][/\ \A k \in 1..Len(candidates') : Len(candidates'[k]) >= 2
       /\ \A k \in 1..Len(cl'.g.candidates) : Len(cl'.g.candidates[k]) >= 2
       /\ CoreFinishes =>
             candidates' = IF Len(cl.g.current_group) >= 2
                           THEN Append(cl.g.candidates, cl.g.current_group)
                           ELSE cl.g.candidates]_vars

\* three records: a run of one, then a trailing run of two that was emitted
C11_Witness ==
    /\ cl.pc = "opt"
    /\ Len(cl.input) = 3
    /\ Len(candidates) = 1
    /\ Len(candidates[1]) = 2
    /\ \A x \in Range(cl.input) : TitleKey(x) <= TitleKey(candidates[1][2])
    /\ \E x \in Range(cl.input) : TitleKey(x) < TitleKey(candidates[1][1])

-----------------------------------------------------------------------------
(* SpecAnalyze: task_analyze_with_gemini (core.py:712-779), one thread per *)
(* POST /api/analyze (main.py:309-317).  The classification service is     *)
(* outside the repository: what it answers is an input.  A thread is       *)
(* stepped at the network call: building and sending one request is a      *)
(* step, handling its response is the next.                                *)

AI_BATCH_SIZE == 3

MaxGroups == 4
MaxAnalyses == 2

AnWorkers == {"a1", "a2"}

Digit == <<"1", "2", "3", "4", "5", "6", "7", "8", "9">>

\* the candidate groups of a run: pairwise different two-member groups
Member(k, m) ==
    LET p == <<"/", "g", Digit[k], "/", Digit[m]>> IN MakeRecord(p, basename(p), k, k)

Group(k) == <<Member(k, 1), Member(k, 2)>>

CandidateLists == {[k \in 1..n |-> Group(k)] : n \in 0..MaxGroups}

\* mutant: a slice that runs one element further
SliceOneMore(list, a, b) ==
    LET hi == IF b + 1 < Len(list) THEN b + 1 ELSE Len(list)
    IN IF a >= hi THEN <<>> ELSE SubSeq(list, a + 1, hi)

\* list[a:b] of Python, 0 <= a <= b
Slice(list, a, b) ==
    LET hi == IF b < Len(list) THEN b ELSE Len(list)
    IN IF a >= hi THEN <<>> ELSE SubSeq(list, a + 1, hi)

\* the position list[gid] of Python reads; outside 1..Len(list) is IndexError
PyIndex(list, gid) == IF gid >= 0 THEN gid + 1 ELSE Len(list) + gid + 1

\* a member that still carries its path
PayloadKeepsPath(f) == [k \in DOMAIN f \ {"search_text"} |-> f[k]]

\* one member as the request carries it (core.py:738)
PayloadFile(f) == [k \in DOMAIN f \ {"path", "search_text"} |-> f[k]]

\* prompt_data of the batch that starts at candidate index i (core.py:735-742)
prompt_data(i, batch) ==
    [idx \in 1..Len(batch) |->
        [group_id |-> i + idx - 1,
         files |-> [m \in 1..Len(batch[idx]) |-> PayloadFile(batch[idx][m])]]]

\* the same candidate groups with every member stored under another path
Repath(batch) ==
    [idx \in 1..Len(batch) |->
        [m \in 1..Len(batch[idx]) |->
            [batch[idx][m] EXCEPT !.path = <<"/", "x">> \o @]]]

(* What the service answers to one request: no usable answer at all (the   *)
(* call raised, or the text is not JSON), or a list of entries.  An entry  *)
(* names a group id: a negative one, the first id of the first batch, the  *)
(* first id of the second batch, or MaxGroups; or it has no group_id.      *)
ResponseIds == {-1, 0, AI_BATCH_SIZE, MaxGroups}

Entries ==
    {[has_id |-> TRUE, group_id |-> g, is_duplicate |-> d] :
        g \in ResponseIds, d \in BOOLEAN}
    \cup {[has_id |-> FALSE, group_id |-> 0, is_duplicate |-> TRUE]}

Responses ==
    {[ok |-> FALSE, results |-> <<>>]}
    \cup {[ok |-> TRUE, results |-> r] :
            r \in {<<>>} \cup {<<e>> : e \in Entries}
                         \cup {<<e1, e2>> : e1 \in Entries, e2 \in Entries}}

NoResponse == [ok |-> TRUE, results |-> <<>>]

\* the id test of core.py:761
IdAccepted(gid, cands) == gid < Len(cands)

\* the loop over the entries of one response (core.py:758-765); raised is
\* the exception that leaves the loop: KeyError on a missing group_id,
\* IndexError on an index Python cannot read.  An entry of state.results is
\* modelled by its "files"; its "reason" is free text and left out.
RECURSIVE HandleEntries(_, _, _)
HandleEntries(entries, cands, res) ==
    IF entries = <<>> THEN [results |-> res, raised |-> FALSE]
    ELSE LET e == Head(entries) IN
         IF ~e.is_duplicate THEN HandleEntries(Tail(entries), cands, res)
         ELSE IF ~e.has_id THEN [results |-> res, raised |-> TRUE]
         ELSE IF ~IdAccepted(e.group_id, cands)
              THEN HandleEntries(Tail(entries), cands, res)
         ELSE IF PyIndex(cands, e.group_id) \notin 1..Len(cands)
              THEN [results |-> res, raised |-> TRUE]
         ELSE HandleEntries(Tail(entries), cands,
                            Append(res, [files |-> cands[PyIndex(cands, e.group_id)]]))

\* the inner try of one batch (core.py:744-770)
HandleResponse(resp, cands, res) ==
    IF ~resp.ok THEN [results |-> res, raised |-> TRUE]
    ELSE HandleEntries(resp.results, cands, res)

AnIdle ==
    [pc |-> "ready", total |-> 0, i |-> 0, batch |-> <<>>, payload |-> <<>>,
     payload2 |-> <<>>,      \* history: the payload of the re-pathed batch
     resp |-> NoResponse,    \* history: the response handled last
     raised |-> FALSE,       \* history: handling it raised
     sent |-> <<>>,          \* history: per request of the run, the groups it listed
     failed |-> 0]           \* history: the requests of the run whose handling raised

InitAnalyze ==
    /\ db = {}
    /\ last = [p \in AllFiles |-> NoRow]
    /\ call = NoCall
    /\ disk = AllFiles
    /\ files = <<>>
    /\ candidates \in CandidateLists
    /\ status = "idle"
    /\ sc = [t \in Workers |-> Idle]
    /\ started = 0
    /\ score = <<>>
    /\ cl = <<>>
    \* what an earlier analysis may have left in state.results
    /\ results \in {<<>>} \cup {<<[files |-> candidates[1]]>> : k \in 1..Len(candidates)}
    /\ \E key \in BOOLEAN : an = [api_key |-> key, runs |-> 0, th |-> [a \in AnWorkers |-> AnIdle]]
    /\ mj = <<>>
    /\ cfg = <<>>

AnalyzeFrame == UNCHANGED <<db, last, call, disk, files, candidates, sc, started, score, cl, mj, cfg>>

InFlight(a) == an.th[a].pc = "waiting"

AnRunning(a) == an.th[a].pc \in {"loop", "waiting"}

\* main.analyze_duplicates starts a thread whatever the status; the thread
\* runs core.py:714-727 up to the for loop.  Without an api key it returns
\* at once; configure_fails is genai.configure or GenerativeModel raising,
\* caught by the outer except (core.py:775-777).
AnalyzeEnter(a, configure_fails) ==
    /\ an.th[a].pc = "ready"
    \* threads are interchangeable: the new run takes the first free one
    /\ a = "a1" \/ an.th["a1"].pc # "ready"
    /\ an.runs < MaxAnalyses
    /\ IF ~an.api_key
       THEN /\ status' = "error"
            /\ an' = [an EXCEPT !.runs = @ + 1, !.th[a] = [AnIdle EXCEPT !.pc = "done"]]
            /\ UNCHANGED results
       ELSE /\ results' = <<>>
            /\ IF configure_fails
               THEN /\ status' = "error"
                    /\ an' = [an EXCEPT !.runs = @ + 1,
                                        !.th[a] = [AnIdle EXCEPT !.pc = "done"]]
               ELSE /\ status' = "analyzing"
                    /\ an' = [an EXCEPT !.runs = @ + 1,
                                        !.th[a] = [AnIdle EXCEPT !.pc = "loop",
                                                                 !.total = Len(candidates)]]
    /\ AnalyzeFrame

\* one pass of the loop head up to the call (core.py:729-755)
AnalyzeSend(a) ==
    /\ an.th[a].pc = "loop"
    /\ an.th[a].i < an.th[a].total
    /\ LET i == an.th[a].i
           batch == Slice(candidates, i, i + AI_BATCH_SIZE)
       IN an' = [an EXCEPT !.th[a] = [@ EXCEPT !.pc = "waiting", !.batch = batch,
                                               !.payload = prompt_data(i, batch),
                                               !.payload2 = prompt_data(i, Repath(batch)),
                                               !.resp = NoResponse, !.raised = FALSE,
                                               !.sent = Append(@, batch)]]
    /\ UNCHANGED <<status, results>>
    /\ AnalyzeFrame

\* the response arrives and is handled (core.py:757-770)
AnalyzeReceive(a, resp) ==
    /\ an.th[a].pc = "waiting"
    /\ LET out == HandleResponse(resp, candidates, results)
       IN /\ results' = out.results
          /\ an' = [an EXCEPT !.th[a] = [@ EXCEPT !.pc = "loop", !.i = @ + AI_BATCH_SIZE,
                                                  !.resp = resp, !.raised = out.raised,
                                                  !.failed = IF out.raised THEN @ + 1
                                                             ELSE @]]
    /\ UNCHANGED status
    /\ AnalyzeFrame

\* mutant: a run whose batches all failed reports an error
StatusErrorIfAllFailed(failed, requests) ==
    IF requests > 0 /\ failed = requests THEN "error" ELSE "done"

\* state.status after the loop (core.py:772): the failures of the batches
\* were caught inside the loop and play no part
StatusAfterLoop(failed, requests) == "done"

\* the loop is over (core.py:772-779)
AnalyzeFinish(a) ==
    /\ an.th[a].pc = "loop"
    /\ an.th[a].i >= an.th[a].total
    /\ status' = StatusAfterLoop(an.th[a].failed, Len(an.th[a].sent))
    /\ an' = [an EXCEPT !.th[a] = [@ EXCEPT !.pc = "done", !.resp = NoResponse,
                                            !.raised = FALSE]]
    /\ UNCHANGED results
    /\ AnalyzeFrame

\* the thread has ended; the next request gets a fresh one
AnalyzeJoin(a) ==
    /\ an.th[a].pc = "done"
    /\ an' = [an EXCEPT !.th[a] = AnIdle]
    /\ UNCHANGED <<status, results>>
    /\ AnalyzeFrame

\* one analysis at a time, every response
NextAnalyze ==
    \/ \E configure_fails \in BOOLEAN : AnalyzeEnter("a1", configure_fails)
    \/ AnalyzeSend("a1")
    \/ \E resp \in Responses : AnalyzeReceive("a1", resp)
    \/ AnalyzeFinish("a1")
    \/ AnalyzeJoin("a1")

SpecAnalyze == InitAnalyze /\ [][NextAnalyze]_vars

-----------------------------------------------------------------------------
(* SpecOverlap: the endpoints of main.py start a thread per request, so    *)
(* analyses and scans overlap.  Two analysis threads and one scan thread   *)
(* run the same actions as above; the scan meets no failure and the        *)
(* service gives one of three answers.                                     *)

OverlapResponses ==
    {[ok |-> FALSE, results |-> <<>>], NoResponse,
     [ok |-> TRUE, results |-> <<[has_id |-> TRUE, group_id |-> 0, is_duplicate |-> TRUE]>>]}

InitOverlap ==
    /\ db = {}
    /\ last = [p \in AllFiles |-> NoRow]
    /\ call = NoCall
    /\ disk = AllFiles
    /\ files = <<>>
    /\ candidates \in CandidateLists
    /\ status = "idle"
    /\ sc = [t \in Workers |-> Idle]
    /\ started = 0
    /\ score = [ratio |-> [pr \in Pairs(Titles) |-> 50], token_set |-> [pr \in Pairs(Texts) |-> 50]]
    /\ cl = <<>>
    /\ results = <<>>
    /\ an = [api_key |-> TRUE, runs |-> 0, th |-> [a \in AnWorkers |-> AnIdle]]
    /\ mj = <<>>
    /\ cfg = <<>>

NextOverlap ==
    \/ \E a \in AnWorkers : AnalyzeEnter(a, FALSE)
    \/ \E a \in AnWorkers : AnalyzeSend(a)
    \/ \E a \in AnWorkers, resp \in OverlapResponses : AnalyzeReceive(a, resp)
    \/ \E a \in AnWorkers : AnalyzeFinish(a)
    \/ \E a \in AnWorkers : AnalyzeJoin(a)
    \/ ScanEnter("w1", Rock)
    \/ ScanFile("w1", TRUE, 0)
    \/ ScanTrailing("w1", 0)
    \/ ScanCluster("w1")
    \/ ScanJoin("w1")

SpecOverlap == InitOverlap /\ [][NextOverlap]_vars

-----------------------------------------------------------------------------
(* Claims about the analysis *)

\* the step in which thread a handles the response to its request
Received(a) == an.th[a].pc = "waiting" /\ an'.th[a].pc = "loop"

\* the entries of state.results that the step appended
Added == SubSeq(results', Len(results) + 1, Len(results'))

\* entry r of a response marks group id gid as a duplicate
Marks(r, gid) == r.is_duplicate /\ r.has_id /\ r.group_id = gid

(* C12: state.results gets an entry for a candidate group only if the      *)
(* response being handled marks the id of that group (its index in          *)
(* state.candidates) with is_duplicate = true; a group answered with        *)
(* is_duplicate = false alone gets none.                                    *)
C12_OnlyMarkedGroups ==
    [][\A a \in AnWorkers : Received(a) =>
          \A n \in 1..Len(Added) :
              \E k \in 1..Len(an'.th[a].resp.results), gid \in 0..(Len(candidates) - 1) :
                  /\ Marks(an'.th[a].resp.results[k], gid)
                  /\ Added[n].files = candidates[gid + 1]]_vars

\* the ids the request of thread a lists
ListedIds(a) == an.th[a].i .. (an.th[a].i + Len(an.th[a].batch) - 1)

\* a response without the entries whose group_id the request did not list
OwnEntries(a, resp) ==
    LET Own(r) == ~r.has_id \/ r.group_id \in ListedIds(a)
    IN [resp EXCEPT !.results = SelectPos(@, Own)]

(* C13: an entry whose group_id is not an id of the batch just sent (an id  *)
(* of another batch, past the end, negative) is ignored: the response has   *)
(* the effect it would have without those entries.                          *)
C13_ForeignIdsIgnored ==
    [][\A a \in AnWorkers : Received(a) =>
          results' = HandleResponse(OwnEntries(a, an'.th[a].resp), candidates, results).results]_vars

(* C14: every entry appended to state.results carries the full records,     *)
(* path included, of the group that the request being answered listed       *)
(* under the group_id of the response entry it comes from.                  *)
C14_CarriesListedGroup ==
    [][\A a \in AnWorkers : Received(a) =>
          \A n \in 1..Len(Added) :
              \E k \in 1..Len(an'.th[a].resp.results), gid \in ListedIds(a) :
                  /\ Marks(an'.th[a].resp.results[k], gid)
                  /\ Added[n].files = an.th[a].batch[gid - an.th[a].i + 1]]_vars

\* the call raised, the text is not JSON, or an entry has no group_id
BatchFails(resp) == ~resp.ok \/ \E k \in 1..Len(resp.results) : ~resp.results[k].has_id

(* C15: a batch whose call or response handling fails adds nothing to       *)
(* state.results, leaves the earlier entries in place, and the loop goes    *)
(* on with the next batch.                                                  *)
C15_FailedBatchAddsNothing ==
    [][\A a \in AnWorkers : (Received(a) /\ BatchFails(an'.th[a].resp)) =>
          /\ results' = results
          /\ an'.th[a].pc = "loop"
          /\ an'.th[a].i = an.th[a].i + AI_BATCH_SIZE]_vars

(* C16: no request carries the path or the search_text of a member, and     *)
(* the request built from the same groups stored under other paths is the   *)
(* same request.                                                            *)
C16_PathWithheld ==
    \A a \in AnWorkers : InFlight(a) =>
        /\ an.th[a].payload = an.th[a].payload2
        /\ \A g \in 1..Len(an.th[a].payload) :
               /\ an.th[a].payload[g].group_id = an.th[a].i + g - 1
               /\ \A m \in 1..Len(an.th[a].payload[g].files) :
                      DOMAIN an.th[a].payload[g].files[m] \cap {"path", "search_text"} = {}

\* a full batch is in flight, then the last, shorter one
C16_Witness ==
    /\ InFlight("a1")
    /\ an.th["a1"].i = AI_BATCH_SIZE
    /\ Len(an.th["a1"].payload) = 1
    /\ Len(an.th["a1"].payload[1].files) = 2

(* C17: at most one request to the classification service is in flight.    *)
C17_NoConcurrentCalls == Cardinality({a \in AnWorkers : InFlight(a)}) <= 1

(* C18: at most one long-running operation, scan or analysis, is active.   *)
C18_OneOperationAtATime ==
    Cardinality({t \in Workers : Running(t)}) + Cardinality({a \in AnWorkers : AnRunning(a)}) <= 1

-----------------------------------------------------------------------------
(* SpecJobs: the maintenance jobs task_dedupe_quality (core.py:782-849)    *)
(* and task_clean_short (core.py:850-884), run by run_task_wrapper in a    *)
(* thread per POST /api/tasks/run/{task_id} or cron trigger.  A job is     *)
(* stepped at its two phases: the walk that collects paths, then the       *)
(* deletions.  A job path is a sequence of tokens: "/", a directory or     *)
(* stem name, an extension.  mutagen and the file system are outside the   *)
(* repository: the length mutagen reports, whether it can read the file,   *)
(* and which os.remove calls fail are inputs.                              *)

DEFAULT_MIN_DURATION == 60

MaxJobs == 2

Music == <<"/", "m">>
MusicSub == <<"/", "m", "/", "s">>
JobDirs == {Music, MusicSub}

JobFile(dir, stem, ext, size, length, readable) ==
    [path |-> dir \o <<"/", stem, ext>>, stem |-> stem, ext |-> ext, size |-> size,
     length |-> length, readable |-> readable]

\* the files a library may hold, in os.walk order: size in MB, length in
\* seconds as mutagen reports it (0: no length), readable: mutagen opens it
Library ==
    <<JobFile(Music, "a", ".mp3", 2, 45, TRUE),
      JobFile(Music, "a", ".flac", 1, 75, TRUE),
      JobFile(Music, "a", ".wav", 2, 45, TRUE),
      JobFile(Music, "b", ".m4a", 2, 45, TRUE),
      JobFile(Music, "b", ".mp3", 1, 0, TRUE),
      JobFile(Music, "c", ".mp3", 1, 45, FALSE),
      JobFile(MusicSub, "a", ".mp3", 3, 60, TRUE)>>

Pool == Range(Library)

\* the library and a copy of the last file one directory further down, in
\* os.walk order
Shelf == Library \o <<JobFile(MusicSub \o <<"/", "t">>, "a", ".mp3", 3, 60, TRUE)>>
Stems == {f.stem : f \in Pool}

FileAt(path) == CHOOSE f \in Range(Shelf) : f.path = path

\* the row a scan stored for a job file
RowOf(f) == MakeRecord(f.path, basename(f.path), 1, 1)

SUPPORTED_FORMATS == {".mp3", ".flac", ".m4a", ".wma"}

\* the paths os.walk(target_dir) yields with an extension in exts
Walk(tree, target_dir, exts) ==
    LET Seen(f) == f \in tree /\ Under(f.path, target_dir) /\ f.ext \in exts
        found == SelectPos(Shelf, Seen)
    IN [k \in 1..Len(found) |-> found[k].path]

\* score of quality_score (core.py:793-799)
format_rank(ext) ==
    IF ext \in {".flac", ".wav"} THEN 3
    ELSE IF ext \in {".m4a", ".aac"} THEN 2
    ELSE IF ext = ".mp3" THEN 1 ELSE 0

\* mutant: a file that is gone counts as larger than any file
getsize_or_large(tree, path) == IF FileAt(path) \in tree THEN FileAt(path).size ELSE 4

\* os.path.getsize, 0 when it raises
getsize(tree, path) == IF FileAt(path) \in tree THEN FileAt(path).size ELSE 0

\* quality_score (core.py:786-800): the tuple (score, size), compared
\* lexicographically; the sizes of the Library stay below 4
quality_score(tree, path) == format_rank(FileAt(path).ext) * 4 + getsize(tree, path)

\* groups of the walk (core.py:828-836): stem -> paths in walk order
GroupsOf(tree, target_dir) ==
    LET found == Walk(tree, target_dir, SUPPORTED_FORMATS)
    IN [st \in Stems |-> LET Same(q) == FileAt(q).stem = st IN SelectPos(found, Same)]

\* to_delete of process_group (core.py:803-812)
ToDelete(tree, paths) ==
    IF Len(paths) <= 1 THEN <<>>
    ELSE LET sorted == SortBy(paths, [q \in Range(paths) |-> quality_score(tree, q)])
         IN SubSeq(sorted, 1, Len(sorted) - 1)

\* a sequence listing the elements of a set of sequences one after another
RECURSIVE Flatten(_, _)
Flatten(f, keys) ==
    IF keys = {} THEN <<>>
    ELSE LET k == CHOOSE x \in keys : TRUE IN f[k] \o Flatten(f, keys \ {k})

\* the duration task_clean_short works with (core.py:861-867): read for
\* .mp3 and .flac only
ReadDuration(f) == IF f.ext \in {".mp3", ".flac"} THEN f.length ELSE 0

\* a test that also takes the clip as long as the threshold
IsShortOrEqual(duration, threshold) == duration > 0 /\ duration <= threshold

\* the test of core.py:869
IsShort(duration, threshold) == duration > 0 /\ duration < threshold

\* to_delete of task_clean_short (core.py:856-873); a file mutagen cannot
\* open raises, is logged and skipped
ShortClips(tree, target_dir, threshold) ==
    LET found == Walk(tree, target_dir, {".mp3", ".flac", ".m4a"})
        Short(q) == LET f == FileAt(q)
                    IN /\ f.ext \in {".mp3", ".flac"} => f.readable
                       /\ IsShort(ReadDuration(f), threshold)
    IN SelectPos(found, Short)

(* Directories and side files.  Next to the audio files of mj.tree a        *)
(* library holds side files (mj.side: covers, descriptions, anything else) *)
(* and directories (mj.dirs).  A side file has a content, so that a        *)
(* rewritten file differs from the one that was there.                     *)
MusicSubT == MusicSub \o <<"/", "t">>
AllDirs == {Music, MusicSub, MusicSubT}

\* mutant: the walk visits a directory before the directories below it
TopDown == <<Music, MusicSub, MusicSubT>>

\* deepest first: the order of os.walk(topdown=False)
BottomUp == <<MusicSubT, MusicSub, Music>>

\* os.path.dirname of a file path, and of a directory
DirOf(path) == SubSeq(path, 1, Len(path) - 3)
ParentOf(dir) == SubSeq(dir, 1, Len(dir) - 2)

\* os.path.splitext(f)[1], already lower case
ExtOf(path) == path[Len(path)]

SideFile(dir, stem, ext, content) ==
    [path |-> dir \o <<"/", stem, ext>>, stem |-> stem, ext |-> ext, content |-> content]

MUSIC_EXTS == {".mp3", ".flac", ".wav", ".m4a", ".wma", ".ape", ".ogg"}
JUNK_EXTS == {".nfo", ".jpg", ".jpeg", ".png", ".lrc", ".txt"}

\* the paths of the files a directory holds
FilesIn(tree, side, dir) ==
    {f.path : f \in {g \in tree \cup side : DirOf(g.path) = dir}}

\* os.listdir(dir) is empty
IsEmptyDir(tree, side, dirs, dir) ==
    /\ FilesIn(tree, side, dir) = {}
    /\ \A d \in dirs : ParentOf(d) # dir

\* scan_dir of run_task_wrapper: the configured target if it exists, the
\* music directory otherwise (core.py:1179-1180)
scan_dir(dirs, target) == IF target \in dirs THEN target ELSE Music

\* the previous run of a job, before any run
NoRun == [task |-> "", target_dir |-> <<>>, clean |-> FALSE]

JobWorkers == {"j1", "j2"}
Tasks == {"dedupe_quality", "clean_short", "extract_meta", "clean_junk"}
MinDurations == {DEFAULT_MIN_DURATION, 45}

JobIdle ==
    [pc |-> "ready", task |-> "", target_dir |-> <<>>, paths |-> <<>>,
     groups |-> <<>>,       \* dedupe: stem -> paths
     to_delete |-> <<>>,
     count |-> 0,           \* the number the job logs at its end
     failed |-> {},         \* history: the paths whose os.remove raised
     walked |-> {},         \* history: the tree when the job walked it
     todo |-> <<>>,         \* clean_junk: the directories still to visit
     listed |-> {},         \* clean_junk: the file paths the walk listed
     wrote |-> {},          \* history: the paths the job wrote
     prior |-> NoRun,       \* history: the run that ended before this one
     keys |-> <<>>,         \* dedupe, stepped: the sort keys computed so far
     pending |-> <<>>]      \* dedupe, stepped: the paths still to remove

InitJobs ==
    /\ last = [p \in AllFiles |-> NoRow]
    /\ call = NoCall
    /\ disk = AllFiles
    /\ files = <<>>
    /\ candidates = <<>>
    /\ status = "idle"
    /\ sc = [t \in Workers |-> Idle]
    /\ started = 0
    /\ score = <<>>
    /\ cl = <<>>
    /\ results = <<>>
    /\ an = <<>>
    /\ cfg = <<>>
    /\ \E tree \in SUBSET Pool, min_duration \in MinDurations :
          /\ db = {RowOf(f) : f \in tree}
          /\ mj = [tree |-> tree, side |-> {}, dirs |-> AllDirs, art |-> {},
                   min_duration |-> min_duration, runs |-> 0,
                   last_run |-> [task \in Tasks |-> FALSE], prev |-> NoRun,
                   th |-> [j \in JobWorkers |-> JobIdle]]

JobsFrame ==
    UNCHANGED <<last, call, disk, files, candidates, status, sc, started, score, cl,
                results, an, cfg>>

JobRunning(j) == mj.th[j].pc \notin {"ready", "done"}

\* run_task_wrapper up to the end of the walk of task_dedupe_quality
\* (core.py:1177-1186, 828-836)
DedupeWalk(j, target_dir) ==
    /\ mj.th[j].pc = "ready"
    /\ j = "j1" \/ mj.th["j1"].pc # "ready"
    /\ mj.runs < MaxJobs
    /\ mj' = [mj EXCEPT !.runs = @ + 1,
                        !.th[j] = [JobIdle EXCEPT !.pc = "dedupe", !.task = "dedupe_quality",
                                                  !.target_dir = scan_dir(mj.dirs, target_dir),
                                                  !.groups = GroupsOf(mj.tree, scan_dir(mj.dirs, target_dir)),
                                                  !.walked = mj.tree, !.prior = mj.prev]]
    /\ UNCHANGED db
    /\ JobsFrame

\* the files os.remove takes away: it raises on a path in failing and on a
\* path that is gone
Removed(tree, to_delete, failing) ==
    {f \in tree : f.path \in Range(to_delete) /\ f.path \notin failing}

RemoveRaised(tree, to_delete, failing) ==
    {q \in Range(to_delete) : q \in failing \/ FileAt(q) \notin tree}

\* to_delete of every group, one after another
AllToDelete(tree, groups) ==
    IF groups = <<>> THEN <<>>
    ELSE Flatten([st \in Stems |-> ToDelete(tree, groups[st])], Stems)

\* process_group over every group, and the end of the job (core.py:802-825,
\* 838-849, 1195-1197)
DedupeProcess(j) ==
    /\ mj.th[j].pc = "dedupe"
    /\ \E failing \in SUBSET Range(AllToDelete(mj.tree, mj.th[j].groups)) :
       LET to_delete == AllToDelete(mj.tree, mj.th[j].groups)
           raised == RemoveRaised(mj.tree, to_delete, failing)
       IN /\ db' = delete_batch(db, to_delete)
          /\ mj' = [mj EXCEPT !.tree = @ \ Removed(@, to_delete, failing),
                              !.last_run["dedupe_quality"] = TRUE,
                              !.prev = [task |-> "dedupe_quality",
                                        target_dir |-> mj.th[j].target_dir,
                                        clean |-> raised = {}],
                              !.th[j] = [@ EXCEPT !.pc = "done", !.to_delete = to_delete,
                                                  !.failed = raised,
                                                  !.count = Len(to_delete) - Cardinality(raised)]]
    /\ JobsFrame

\* run_task_wrapper up to the end of the walk of task_clean_short
\* (core.py:1177-1188, 852-873)
CleanShortWalk(j, target_dir) ==
    /\ mj.th[j].pc = "ready"
    /\ j = "j1" \/ mj.th["j1"].pc # "ready"
    /\ mj.runs < MaxJobs
    /\ mj' = [mj EXCEPT !.runs = @ + 1,
                        !.th[j] = [JobIdle EXCEPT
                                     !.pc = "clean", !.task = "clean_short",
                                     !.target_dir = scan_dir(mj.dirs, target_dir),
                                     !.to_delete = ShortClips(mj.tree, scan_dir(mj.dirs, target_dir),
                                                              mj.min_duration),
                                     !.walked = mj.tree, !.prior = mj.prev]]
    /\ UNCHANGED db
    /\ JobsFrame

\* the deletions and the end of the job (core.py:876-884, 1195-1197)
CleanShortDelete(j) ==
    /\ mj.th[j].pc = "clean"
    /\ \E failing \in SUBSET Range(mj.th[j].to_delete) :
       LET to_delete == mj.th[j].to_delete
           raised == RemoveRaised(mj.tree, to_delete, failing)
       IN /\ db' = delete_batch(db, to_delete)
          /\ mj' = [mj EXCEPT !.tree = @ \ Removed(@, to_delete, failing),
                              !.last_run["clean_short"] = TRUE,
                              !.prev = [task |-> "clean_short",
                                        target_dir |-> mj.th[j].target_dir,
                                        clean |-> raised = {}],
                              !.th[j] = [@ EXCEPT !.pc = "done", !.failed = raised,
                                                  !.count = Len(to_delete) - Cardinality(raised)]]
    /\ JobsFrame

\* the thread has ended
JobJoin(j) ==
    /\ mj.th[j].pc = "done"
    /\ mj' = [mj EXCEPT !.th[j] = JobIdle]
    /\ UNCHANGED db
    /\ JobsFrame

NextJobs ==
    \E j \in JobWorkers :
        \/ \E target_dir \in JobDirs : DedupeWalk(j, target_dir)
        \/ DedupeProcess(j)
        \/ \E target_dir \in JobDirs : CleanShortWalk(j, target_dir)
        \/ CleanShortDelete(j)
        \/ JobJoin(j)

SpecJobs == InitJobs /\ [][NextJobs]_vars

-----------------------------------------------------------------------------
(* Claims about the maintenance jobs *)

\* the step in which job thread j deletes
Deletes(j) == JobRunning(j) /\ mj'.th[j].pc = "done"

\* the formats the quality key ranks
Ranked == {".flac", ".wav", ".m4a", ".aac", ".mp3"}

\* f is not above g under the key (format_rank, file_size)
KeyLeq(f, g) ==
    \/ format_rank(f.ext) < format_rank(g.ext)
    \/ format_rank(f.ext) = format_rank(g.ext) /\ f.size <= g.size

\* the files of stem st under the directory of job j
StemGroup(j, st) ==
    {f \in mj.tree : Under(f.path, mj.th[j].target_dir) /\ f.stem = st /\ f.ext \in Ranked}

(* C19: when quality dedup ends with no failed deletion, of every group of  *)
(* two or more files sharing a stem exactly one file is left, and it is     *)
(* maximal under (format_rank, file_size), flac/wav = 3, m4a/aac = 2,       *)
(* mp3 = 1.                                                                 *)
C19_KeepsBestOfStem ==
    [][\A j \in JobWorkers :
          (Deletes(j) /\ mj.th[j].task = "dedupe_quality" /\ mj'.th[j].failed = {}) =>
              \A st \in Stems :
                  Cardinality(StemGroup(j, st)) >= 2 =>
                      \E k \in StemGroup(j, st) :
                          /\ \A f \in StemGroup(j, st) : KeyLeq(f, k)
                          /\ StemGroup(j, st) \cap mj'.tree = {k}]_vars

\* the duration the job knows: mutagen reads .mp3 and .flac; 0 is unknown
KnownDuration(f) == IF f.ext \in {".mp3", ".flac"} /\ f.readable THEN f.length ELSE 0

HasRow(rows, f) == \E r \in rows : r.path = f.path

(* C20: when the short-clip purge ends with no failed deletion, a file      *)
(* under the directory is gone from disk and from the store exactly when    *)
(* 0 < duration < threshold; every other file and its row are still there.  *)
C20_PurgesExactlyShortClips ==
    [][\A j \in JobWorkers :
          (Deletes(j) /\ mj.th[j].task = "clean_short" /\ mj'.th[j].failed = {}) =>
              \A f \in mj.tree :
                  IF /\ Under(f.path, mj.th[j].target_dir)
                     /\ 0 < KnownDuration(f)
                     /\ KnownDuration(f) < mj.min_duration
                  THEN f \notin mj'.tree /\ ~HasRow(db', f)
                  ELSE f \in mj'.tree /\ (HasRow(db, f) => HasRow(db', f))]_vars

\* threshold 60: the 45 s clip is gone, the 75 s, the 60 s and the 0 s
\* files are still there
C20_Witness ==
    /\ mj.th["j1"].pc = "done"
    /\ mj.th["j1"].task = "clean_short"
    /\ mj.th["j1"].failed = {}
    /\ mj.min_duration = DEFAULT_MIN_DURATION
    /\ \E f \in mj.th["j1"].walked \ mj.tree : KnownDuration(f) = 45 /\ ~HasRow(db, f)
    /\ \A n \in {0, 60, 75} :
           \E f \in mj.th["j1"].walked \cap mj.tree :
               f.readable /\ KnownDuration(f) = n /\ HasRow(db, f)


(***************************************************************************)
(* The jobs that write and remove side files: task_extract_meta and        *)
(* task_clean_junk (core.py:887-988), run one after another by one thread  *)
(* together with the two jobs above (SpecUpkeep).                          *)
(***************************************************************************)
\* os.path.exists of a side file path
Exists(side, path) == \E s \in side : s.path = path

\* open(path, "w") and write: the file holds the new content afterwards
Write(side, file) == {s \in side : s.path # file.path} \cup {file}

\* mutant: the file is written without looking for an existing one
WriteAlways(side, file) == Write(side, file)

\* the guarded write of task_extract_meta: if not os.path.exists(p): write
WriteIfMissing(side, file) == IF Exists(side, file.path) THEN side ELSE Write(side, file)

\* the body of the loop of task_extract_meta for one file (core.py:894-929);
\* art is the set of files that carry an embedded picture
ExtractOne(side, path, art) ==
    LET root == DirOf(path)
        base_name == FileAt(path).stem
        nfo == SideFile(root, base_name, ".nfo", path)
        song_cover == SideFile(root, base_name, ".jpg", path)
        folder_cover == SideFile(root, "folder", ".jpg", path)
        side1 == WriteIfMissing(side, nfo)
    IN IF (~Exists(side1, song_cover.path) \/ ~Exists(side1, folder_cover.path))
          /\ path \in art
       THEN WriteIfMissing(WriteIfMissing(side1, song_cover), folder_cover)
       ELSE side1

RECURSIVE ExtractAll(_, _, _)
ExtractAll(side, found, art) ==
    IF found = <<>> THEN side
    ELSE ExtractAll(ExtractOne(side, Head(found), art), Tail(found), art)

\* run_task_wrapper with task_extract_meta (core.py:887-937, 1177-1197)
ExtractMeta(j, target_dir) ==
    /\ mj.th[j].pc = "ready"
    /\ mj.runs < MaxJobs
    /\ LET dir == scan_dir(mj.dirs, target_dir)
           found == Walk(mj.tree, dir, {".mp3", ".flac"})
           after == ExtractAll(mj.side, found, mj.art)
       IN mj' = [mj EXCEPT !.runs = @ + 1,
                           !.side = after,
                           !.last_run["extract_meta"] = TRUE,
                           !.prev = [task |-> "extract_meta", target_dir |-> dir,
                                     clean |-> TRUE],
                           !.th[j] = [JobIdle EXCEPT !.pc = "done", !.task = "extract_meta",
                                                     !.target_dir = dir,
                                                     !.wrote = {s.path : s \in after \ mj.side},
                                                     !.prior = mj.prev]]
    /\ UNCHANGED db
    /\ JobsFrame

\* the directories os.walk(target_dir, topdown=False) yields, in its order
WalkDirs(dirs, target_dir) ==
    LET Seen(d) == d \in dirs /\ (d = target_dir \/ Under(d, target_dir))
    IN SelectPos(BottomUp, Seen)

\* run_task_wrapper up to the listing of the walk of task_clean_junk
\* (core.py:962, 1177-1192)
JunkWalk(j, target_dir) ==
    /\ mj.th[j].pc = "ready"
    /\ mj.runs < MaxJobs
    /\ LET dir == scan_dir(mj.dirs, target_dir)
       IN mj' = [mj EXCEPT !.runs = @ + 1,
                           !.th[j] = [JobIdle EXCEPT
                                        !.pc = "junk", !.task = "clean_junk",
                                        !.target_dir = dir,
                                        !.todo = WalkDirs(mj.dirs, dir),
                                        !.listed = {f.path : f \in mj.tree \cup mj.side},
                                        !.walked = mj.tree, !.prior = mj.prev]]
    /\ UNCHANGED db
    /\ JobsFrame

\* has_music of one directory of the walk (core.py:963-966)
has_music(listed, root) ==
    \E p \in listed : DirOf(p) = root /\ ExtOf(p) \in MUSIC_EXTS

\* mutant: every junk file goes, whatever else the directory holds
JunkEverywhere(listed, root) ==
    {p \in listed : DirOf(p) = root /\ ExtOf(p) \in JUNK_EXTS}

\* mutant: the loop stops after the first junk file
JunkOne(listed, root) ==
    LET all == {p \in listed : DirOf(p) = root /\ ExtOf(p) \in JUNK_EXTS}
    IN IF has_music(listed, root) \/ all = {} THEN {} ELSE {CHOOSE p \in all : TRUE}

\* the files the loop of one directory hands to os.remove (core.py:968-972)
JunkOf(listed, root) ==
    IF has_music(listed, root) THEN {}
    ELSE {p \in listed : DirOf(p) = root /\ ExtOf(p) \in JUNK_EXTS}

\* the body of the walk of task_clean_junk for one directory (core.py:963-986):
\* os.remove raises on the paths in failing, os.rmdir raises if rmdir_fails
JunkVisit(j) ==
    /\ mj.th[j].pc = "junk"
    /\ mj.th[j].todo # <<>>
    /\ LET root == Head(mj.th[j].todo)
           junk == JunkOf(mj.th[j].listed, root)
       IN \E failing \in SUBSET junk, rmdir_fails \in BOOLEAN :
          LET gone == {f \in mj.tree \cup mj.side : f.path \in junk \ failing}
              tree1 == mj.tree \ gone
              side1 == mj.side \ gone
              empty == /\ ~has_music(mj.th[j].listed, root)
                       /\ root \in mj.dirs
                       /\ IsEmptyDir(tree1, side1, mj.dirs, root)
              raised == {q \in junk : q \in failing \/ ~Exists(mj.tree \cup mj.side, q)}
                            \cup (IF empty /\ rmdir_fails THEN {root} ELSE {})
          IN /\ rmdir_fails => empty
             /\ mj' = [mj EXCEPT !.tree = tree1, !.side = side1,
                                 !.dirs = IF empty /\ ~rmdir_fails THEN @ \ {root} ELSE @,
                                 !.th[j] = [@ EXCEPT !.todo = Tail(@),
                                                     !.failed = @ \cup raised,
                                                     !.count = @ + Cardinality(junk \ raised)]]
    /\ UNCHANGED db
    /\ JobsFrame

\* the end of task_clean_junk and of run_task_wrapper (core.py:988, 1195-1197)
JunkFinish(j) ==
    /\ mj.th[j].pc = "junk"
    /\ mj.th[j].todo = <<>>
    /\ mj' = [mj EXCEPT !.last_run["clean_junk"] = TRUE,
                        !.prev = [task |-> "clean_junk", target_dir |-> mj.th[j].target_dir,
                                  clean |-> mj.th[j].failed = {}],
                        !.th[j] = [@ EXCEPT !.pc = "done"]]
    /\ UNCHANGED db
    /\ JobsFrame

\* the library of SpecUpkeep: three of the audio files, four side files that
\* were there before any job ran, and the one file that carries a picture
\* (the .mp3 file of the sub-directory carries none)
UpkeepPool == {f \in Pool : f.stem = "a" /\ f.ext # ".flac"}
Old == <<"old">>
SidePool ==
    {SideFile(MusicSubT, "x", ".jpg", Old), SideFile(MusicSub, "y", ".pdf", Old),
     SideFile(Music, "a", ".nfo", Old), SideFile(Music, "folder", ".jpg", Old)}
ArtPool == {f.path : f \in {g \in UpkeepPool : g.ext = ".mp3" /\ DirOf(g.path) = Music}}

InitUpkeep ==
    /\ last = [p \in AllFiles |-> NoRow]
    /\ call = NoCall
    /\ disk = AllFiles
    /\ files = <<>>
    /\ candidates = <<>>
    /\ status = "idle"
    /\ sc = [t \in Workers |-> Idle]
    /\ started = 0
    /\ score = <<>>
    /\ cl = <<>>
    /\ results = <<>>
    /\ an = <<>>
    /\ cfg = <<>>
    /\ \E tree \in SUBSET UpkeepPool, side \in SUBSET SidePool :
          /\ db = {RowOf(f) : f \in tree}
          /\ mj = [tree |-> tree, side |-> side, dirs |-> AllDirs, art |-> ArtPool,
                   min_duration |-> DEFAULT_MIN_DURATION, runs |-> 0,
                   last_run |-> [task \in Tasks |-> FALSE], prev |-> NoRun,
                   th |-> [j \in JobWorkers |-> JobIdle]]

NextUpkeep ==
    \/ \E target_dir \in JobDirs : DedupeWalk("j1", target_dir)
    \/ DedupeProcess("j1")
    \/ \E target_dir \in JobDirs : CleanShortWalk("j1", target_dir)
    \/ CleanShortDelete("j1")
    \/ \E target_dir \in JobDirs : ExtractMeta("j1", target_dir)
    \/ \E target_dir \in JobDirs : JunkWalk("j1", target_dir)
    \/ JunkVisit("j1")
    \/ JunkFinish("j1")
    \/ JobJoin("j1")

SpecUpkeep == InitUpkeep /\ [][NextUpkeep]_vars


(***************************************************************************)
(* Claims about the side-file jobs.                                        *)
(***************************************************************************)
\* the files and the directories of the library
AllOnDisk == mj.tree \cup mj.side
AllOnDiskAfter == mj'.tree \cup mj'.side

\* a file with an audio extension
IsAudio(f) == f.ext \in MUSIC_EXTS

\* a step of the walk of task_clean_junk over one directory
JunkStep(j) ==
    /\ mj.th[j].pc = "junk"
    /\ mj.th[j].todo # <<>>
    /\ mj'.th[j].todo = Tail(mj.th[j].todo)

\* C21: junk cleanup deletes a file only if it has a junk extension and its
\* directory directly holds no audio file, and removes a directory only if
\* it is empty at that moment; no audio file is deleted, and a directory
\* that holds an audio file keeps all its files
C21_JunkOnlyWhereNoAudio ==
    [][\A j \in JobWorkers : JunkStep(j) =>
          /\ \A f \in AllOnDisk \ AllOnDiskAfter :
                /\ f.ext \in JUNK_EXTS
                /\ ~IsAudio(f)
                /\ \A g \in AllOnDisk : IsAudio(g) => DirOf(g.path) # DirOf(f.path)
          /\ \A d \in mj.dirs \ mj'.dirs :
                IsEmptyDir(mj'.tree, mj'.side, mj.dirs, d)
          /\ \A g \in AllOnDisk : IsAudio(g) =>
                \A f \in AllOnDisk : DirOf(f.path) = DirOf(g.path) => f \in AllOnDiskAfter]_vars

\* a cleanup has deleted a cover and removed its directory, next to a
\* directory whose audio file still has its description
C21_Witness ==
    /\ mj.th["j1"].pc = "junk"
    /\ mj.th["j1"].count = 1
    /\ MusicSubT \notin mj.dirs
    /\ \E f \in mj.tree, s \in mj.side :
          DirOf(f.path) = Music /\ DirOf(s.path) = Music /\ s.ext = ".nfo"

\* the directories of the walk that still exist
Within(dirs, target_dir) == {d \in dirs : d = target_dir \/ Under(d, target_dir)}

\* C22: the cleanup visits a directory only after every directory below it,
\* so that at the end of a run in which no removal raised no empty directory
\* is left in the directory it walked
C22_CascadesUpward ==
    [][\A j \in JobWorkers :
          /\ JunkStep(j) =>
                \A k \in 2..Len(mj.th[j].todo) :
                    ~Under(mj.th[j].todo[k], Head(mj.th[j].todo))
          /\ (mj.th[j].pc = "junk" /\ mj'.th[j].pc = "done" /\ mj.th[j].failed = {}) =>
                \A d \in Within(mj'.dirs, mj.th[j].target_dir) :
                    ~IsEmptyDir(mj'.tree, mj'.side, mj'.dirs, d)]_vars

\* the first run has deleted one cover in the deepest directory and has
\* removed that directory and the one above it
C22_Witness ==
    /\ mj.runs = 1
    /\ mj.th["j1"].pc = "done"
    /\ mj.th["j1"].task = "clean_junk"
    /\ mj.th["j1"].failed = {}
    /\ mj.th["j1"].count = 1
    /\ MusicSubT \notin mj.dirs
    /\ MusicSub \notin mj.dirs
    /\ Music \in mj.dirs

\* a run of task_extract_meta
ExtractStep(j) == mj.th[j].pc = "ready" /\ mj'.th[j].task = "extract_meta"

\* C23: the extraction leaves every description and cover that exists as it
\* is, and a second run right after a first on the same directory writes no
\* file
C23_NeverOverwrites ==
    [][\A j \in JobWorkers : ExtractStep(j) =>
          /\ \A s \in mj.side : s \in mj'.side
          /\ mj'.tree = mj.tree
          /\ (mj.prev.task = "extract_meta" /\ mj.prev.target_dir = mj'.th[j].target_dir)
                => mj'.side = mj.side]_vars

\* a second run has written nothing, after a first that wrote a cover next
\* to a description that was there before
C23_Witness ==
    /\ mj.th["j1"].pc = "done"
    /\ mj.th["j1"].task = "extract_meta"
    /\ mj.th["j1"].prior.task = "extract_meta"
    /\ mj.th["j1"].prior.target_dir = mj.th["j1"].target_dir
    /\ mj.th["j1"].wrote = {}
    /\ \E s \in mj.side : s.ext = ".nfo" /\ s.content = Old
    /\ \E s \in mj.side : s.ext = ".jpg" /\ s.stem = "a" /\ s.content # Old

\* the job of thread j follows a run of the same job on the same directory
\* in which no deletion failed
Repeats(j) ==
    /\ mj.th[j].prior.task = mj.th[j].task
    /\ mj.th[j].prior.target_dir = mj.th[j].target_dir
    /\ mj.th[j].prior.clean

\* C24: quality dedup, short-clip purge and junk cleanup delete nothing and
\* leave files, directories and store as they are when they run right after
\* a run of the same job on the same directory in which no deletion failed
C24_SecondRunDeletesNothing ==
    [][\A j \in JobWorkers :
          (mj.th[j].pc \in {"dedupe", "clean", "junk"} /\ Repeats(j)) =>
              /\ mj'.tree = mj.tree
              /\ mj'.side = mj.side
              /\ mj'.dirs = mj.dirs
              /\ db' = db]_vars

\* a second cleanup has ended without a deletion, after a first that
\* removed a directory
C24_Witness ==
    /\ mj.runs = 2
    /\ mj.th["j1"].pc = "done"
    /\ mj.th["j1"].task \in {"dedupe_quality", "clean_short", "clean_junk"}
    /\ Repeats("j1")
    /\ mj.th["j1"].count = 0
    /\ (mj.dirs # AllDirs \/ mj.tree # UpkeepPool)


(***************************************************************************)
(* The configuration and the scheduler (SpecConfig): ConfigManager,        *)
(* AppState.tasks_config, save_config, _update_scheduler, run_task_wrapper *)
(* and the two endpoints that save the task configuration and start a run. *)
(* A task entry is a function from the keys it has to their values; a cron *)
(* string is the sequence of its blank-separated fields; last_run is the   *)
(* reading of a clock, 0 for None.                                         *)
(***************************************************************************)
MaxSaves == 2
MaxRuns == 2

ConfigIds == {"clean_short", "clean_junk"}
RunIds == ConfigIds \cup {"ghost"}

\* "0 2 * * *", a string of four fields, and five fields CronTrigger rejects
Cron5 == <<"0", "2", "*", "*", "*">>
Cron4 == <<"0", "2", "*", "*">>
CronBad == <<"0", "2", "*", "*", "x">>

\* CronTrigger(minute=..., ...) accepts the field
FieldOk(field) == field # "x"

EmptyMap == [k \in {} |-> 0]

\* the default tasks_config of ConfigManager (core.py:271-292)
DefaultTasks ==
    [id \in ConfigIds |->
        IF id = "clean_short"
        THEN [enabled |-> FALSE, cron |-> Cron5, min_duration |-> DEFAULT_MIN_DURATION,
              last_run |-> 0]
        ELSE [enabled |-> FALSE, cron |-> Cron5, last_run |-> 0]]

\* base[key] = value for the keys of update, on one entry
MergeEntry(base, update) ==
    [k \in DOMAIN base \cup DOMAIN update |-> IF k \in DOMAIN update THEN update[k] ELSE base[k]]

\* ConfigManager._merge_config on the tasks_config map (core.py:305-311)
MergeTasks(base, update) ==
    [id \in DOMAIN base \cup DOMAIN update |->
        IF id \notin DOMAIN update THEN base[id]
        ELSE IF id \in DOMAIN base THEN MergeEntry(base[id], update[id])
        ELSE update[id]]

\* the tasks_config setter: config_manager.set("tasks_config", value)
\* (core.py:502-504, 326-328)
SetTasks(old, value) == value

\* the entries a request carries
RequestEntries ==
    {[enabled |-> TRUE, cron |-> Cron5],
     [enabled |-> TRUE, cron |-> Cron4],
     [enabled |-> TRUE, cron |-> CronBad],
     [enabled |-> TRUE],
     [enabled |-> FALSE, cron |-> Cron5, last_run |-> 0]}

Requests == UNION {[ids -> RequestEntries] : ids \in SUBSET ConfigIds}

\* the test of _update_scheduler on one entry: enabled, and a cron of five
\* fields that CronTrigger takes (core.py:558-570; a missing cron raises
\* KeyError, which the loop catches)
Schedulable(conf) ==
    /\ "enabled" \in DOMAIN conf
    /\ conf["enabled"]
    /\ "cron" \in DOMAIN conf
    /\ Len(conf["cron"]) = 5
    /\ \A k \in 1..5 : FieldOk(conf["cron"][k])

\* mutant: the triggers of the earlier configuration stay
keep_all_jobs(jobs) == jobs

\* scheduler.remove_all_jobs() (core.py:555)
remove_all_jobs(jobs) == {}

\* the task id a trigger calls run_task_wrapper with: lambda tid=task_id
\* (core.py:563), args=[task_id] (core_optimized.py:204)
Bound(task_id, tasks) == task_id

\* scheduler.add_job(..., id=task_id, replace_existing=True)
add_job(jobs, job) == {x \in jobs : x.id # job.id} \cup {job}

RECURSIVE AddJobs(_, _, _)
AddJobs(jobs, ids, tasks) ==
    IF ids = {} THEN jobs
    ELSE LET task_id == CHOOSE id \in ids : TRUE
         IN AddJobs(IF Schedulable(tasks[task_id])
                    THEN add_job(jobs, [id |-> task_id, arg |-> Bound(task_id, tasks)])
                    ELSE jobs,
                    ids \ {task_id}, tasks)

\* AppState._update_scheduler (core.py:553-576)
update_scheduler(jobs, tasks) == AddJobs(remove_all_jobs(jobs), DOMAIN tasks, tasks)

\* mutant: the run leaves last_run as it is
StampNothing(conf, now) == conf

\* state.tasks_config[task_id]["last_run"] = now (core.py:1195)
Stamp(conf, now) == MergeEntry(conf, [last_run |-> now])

RunThreads == {"manual", "cron"}

RunIdle == [pc |-> "ready", task_id |-> "", error |-> "none", escaped |-> FALSE]

\* AppState.__init__: the configuration file is merged into the defaults
\* and the triggers are registered (core.py:424-447, 294-303)
InitConfig ==
    /\ db = {}
    /\ last = [p \in AllFiles |-> NoRow]
    /\ call = NoCall
    /\ disk = AllFiles
    /\ files = <<>>
    /\ candidates = <<>>
    /\ status = "idle"
    /\ sc = [t \in Workers |-> Idle]
    /\ started = 0
    /\ score = <<>>
    /\ cl = <<>>
    /\ results = <<>>
    /\ an = <<>>
    /\ mj = <<>>
    /\ \E loaded \in {EmptyMap, [id \in ConfigIds |-> [enabled |-> TRUE, cron |-> Cron5]]} :
          cfg = [tasks |-> MergeTasks(DefaultTasks, loaded),
                 file |-> loaded,
                 jobs |-> update_scheduler({}, MergeTasks(DefaultTasks, loaded)),
                 req |-> EmptyMap,
                 clock |-> 1, saves |-> 0, runs |-> 0,
                 th |-> [t \in RunThreads |-> RunIdle]]

ConfigFrame ==
    UNCHANGED <<db, last, call, disk, files, candidates, status, sc, started, score, cl,
                results, an, mj>>

\* POST /api/tasks/config: save_tasks_config (main.py:255-261), with
\* save_config (core.py:517-521)
SaveTasksConfig(req) ==
    /\ cfg.saves < MaxSaves
    /\ LET tasks == SetTasks(cfg.tasks, req)
       IN cfg' = [cfg EXCEPT !.tasks = tasks, !.file = tasks,
                             !.jobs = update_scheduler(@, tasks),
                             !.req = req,
                             !.saves = @ + 1]
    /\ ConfigFrame

\* POST /api/tasks/run/{task_id}: a thread that calls run_task_wrapper
\* (main.py:264-273)
RunManual(task_id) ==
    /\ cfg.th["manual"].pc = "ready"
    /\ cfg.runs < MaxRuns
    /\ cfg' = [cfg EXCEPT !.runs = @ + 1,
                          !.th["manual"] = [RunIdle EXCEPT !.pc = "job", !.task_id = task_id]]
    /\ ConfigFrame

\* a registered trigger fires: the scheduler calls run_task_wrapper with the
\* bound task id (core.py:562-563)
CronFire ==
    /\ cfg.th["cron"].pc = "ready"
    /\ cfg.runs < MaxRuns
    /\ \E job \in cfg.jobs :
          cfg' = [cfg EXCEPT !.runs = @ + 1,
                             !.th["cron"] = [RunIdle EXCEPT !.pc = "job", !.task_id = job.arg]]
    /\ ConfigFrame

\* an exception the except clause of run_task_wrapper handles (core.py:1198)
Caught(error) == error \in {"none", "job", "KeyError"}

\* the job of run_task_wrapper and its end (core.py:1184-1200): the job may
\* raise (task_clean_short does when its entry is missing, core.py:852),
\* otherwise last_run is written, the configuration saved and the triggers
\* registered again
RunEnd(t) ==
    /\ cfg.th[t].pc = "job"
    /\ \E job_raises \in BOOLEAN :
          LET task_id == cfg.th[t].task_id
              error == IF job_raises \/ (task_id = "clean_short" /\ task_id \notin DOMAIN cfg.tasks)
                       THEN "job"
                       ELSE IF task_id \notin DOMAIN cfg.tasks THEN "KeyError" ELSE "none"
              tasks == IF error = "none"
                       THEN [cfg.tasks EXCEPT ![task_id] = Stamp(@, cfg.clock)]
                       ELSE cfg.tasks
          IN /\ job_raises => task_id \in ConfigIds
             /\ cfg' = [cfg EXCEPT !.tasks = tasks,
                                   !.file = IF error = "none" THEN tasks ELSE @,
                                   !.jobs = IF error = "none" THEN update_scheduler(@, tasks) ELSE @,
                                   !.clock = @ + 1,
                                   !.th[t] = [@ EXCEPT !.pc = "done", !.error = error,
                                                       !.escaped = ~Caught(error)]]
    /\ ConfigFrame

\* the thread of the run has ended
RunJoin(t) ==
    /\ cfg.th[t].pc = "done"
    /\ cfg' = [cfg EXCEPT !.th[t] = RunIdle]
    /\ ConfigFrame

NextConfig ==
    \/ \E req \in Requests : SaveTasksConfig(req)
    \/ \E task_id \in RunIds : RunManual(task_id)
    \/ CronFire
    \/ \E t \in RunThreads : RunEnd(t)
    \/ \E t \in RunThreads : RunJoin(t)

SpecConfig == InitConfig /\ [][NextConfig]_vars


(***************************************************************************)
(* Claims about the configuration and the scheduler.                       *)
(***************************************************************************)
\* the entry is enabled and its cron is a cron string of five fields
EnabledWithCron(conf) ==
    /\ "enabled" \in DOMAIN conf /\ conf["enabled"] = TRUE
    /\ "cron" \in DOMAIN conf /\ Len(conf["cron"]) = 5
    /\ \A k \in DOMAIN conf["cron"] : FieldOk(conf["cron"][k])

\* C25: the registered triggers are exactly the task ids whose entry is
\* enabled and has a five-field cron string, none is left from an earlier
\* configuration, and each trigger calls the job with its own task id
C25_TriggersMatchConfig ==
    cfg.jobs = {[id |-> task_id, arg |-> task_id] :
                    task_id \in {id \in DOMAIN cfg.tasks : EnabledWithCron(cfg.tasks[id])}}

\* after a save one trigger is registered, while the other task is enabled
\* with a cron the scheduler does not take
C25_Witness ==
    /\ cfg.saves > 0
    /\ cfg.jobs = {[id |-> "clean_junk", arg |-> "clean_junk"]}
    /\ "clean_short" \in DOMAIN cfg.tasks
    /\ "enabled" \in DOMAIN cfg.tasks["clean_short"]
    /\ cfg.tasks["clean_short"]["enabled"]
    /\ ~EnabledWithCron(cfg.tasks["clean_short"])

\* the end of a run of run_task_wrapper in thread t
RunEnds(t) == cfg.th[t].pc = "job" /\ cfg'.th[t].pc = "done"

\* C26: a manual and a cron run end the same way: a completed run writes
\* the clock into last_run of its task and the saved configuration is the
\* one in memory; a run whose task id has no entry changes no entry and no
\* exception leaves run_task_wrapper
C26_RunsStampLastRun ==
    [][\A t \in RunThreads : RunEnds(t) =>
          LET task_id == cfg.th[t].task_id
          IN /\ ~cfg'.th[t].escaped
             /\ cfg'.th[t].error = "none" =>
                   /\ task_id \in DOMAIN cfg'.tasks
                   /\ cfg'.tasks[task_id]["last_run"] = cfg.clock
                   /\ cfg'.file = cfg'.tasks
             /\ task_id \notin DOMAIN cfg.tasks =>
                   /\ cfg'.tasks = cfg.tasks
                   /\ cfg'.file = cfg.file]_vars

\* a cron run has completed and written last_run, and a manual run of an
\* id without entry has ended on the KeyError
C26_Witness ==
    /\ cfg.saves = 0
    /\ cfg.th["cron"].pc = "done"
    /\ cfg.th["cron"].error = "none"
    /\ cfg.th["cron"].task_id \in DOMAIN cfg.tasks
    /\ cfg.tasks[cfg.th["cron"].task_id]["last_run"] > 0
    /\ cfg.file = cfg.tasks
    /\ cfg.th["manual"].pc = "done"
    /\ cfg.th["manual"].task_id = "ghost"
    /\ cfg.th["manual"].error = "KeyError"

\* C27: saving a task configuration merges it into the one in memory: a job
\* id or a field the request omits keeps its previous value
C27_SaveMerges ==
    [][cfg'.saves = cfg.saves + 1 =>
          \A id \in DOMAIN cfg.tasks :
              /\ id \in DOMAIN cfg'.tasks
              /\ \A k \in DOMAIN cfg.tasks[id] :
                    /\ k \in DOMAIN cfg'.tasks[id]
                    /\ (id \notin DOMAIN cfg'.req \/ k \notin DOMAIN cfg'.req[id])
                          => cfg'.tasks[id][k] = cfg.tasks[id][k]]_vars


(***************************************************************************)
(* The extractor on file names (SpecExtract) and the metadata edits and    *)
(* renames (SpecEdit).  A string is the sequence of its characters, an     *)
(* extension is one element; a file on disk is its path with the artist    *)
(* and title tags it stores (empty if it has none).                        *)
(***************************************************************************)
MaxPieces == 5
MaxEdits == 2

Separator == <<" ", "-", " ">>

\* str.find, counted from 1: 0 if sub does not occur
IndexOf(s, sub) ==
    LET hits == {i \in 1..(Len(s) - Len(sub) + 1) : SubSeq(s, i, i + Len(sub) - 1) = sub}
    IN IF hits = {} THEN 0 ELSE CHOOSE i \in hits : \A j \in hits : i <= j

\* str.strip
RECURSIVE strip(_)
strip(s) ==
    IF s = <<>> THEN s
    ELSE IF Head(s) = " " THEN strip(Tail(s))
    ELSE IF s[Len(s)] = " " THEN strip(SubSeq(s, 1, Len(s) - 1))
    ELSE s

\* str.lower
LowerChar(c) ==
    IF c = "A" THEN "a" ELSE IF c = "B" THEN "b" ELSE IF c = "U" THEN "u" ELSE c
lower(s) == [i \in 1..Len(s) |-> LowerChar(s[i])]

\* os.path.splitext(filename): the stem and the extension
splitext(filename) ==
    [stem |-> SubSeq(filename, 1, Len(filename) - 1), ext |-> filename[Len(filename)]]

\* base.split(" - ", 1), for a base that holds the separator
split_once(base) ==
    LET i == IndexOf(base, Separator)
    IN <<SubSeq(base, 1, i - 1), SubSeq(base, i + Len(Separator), Len(base))>>

\* AudioMetadataExtractor._infer_title_from_filename (core.py:413-419)
infer_title_from_filename(filename, artist) ==
    LET base == splitext(filename).stem
    IN IF IndexOf(base, Separator) # 0 THEN split_once(base)[2] ELSE base

\* the tags mutagen reads: of .mp3 and .flac files only (core.py:352-366)
TagsOf(file) ==
    IF file.path[Len(file.path)] \in {".mp3", ".flac"}
    THEN [artist |-> file.artist, title |-> file.title]
    ELSE [artist |-> <<>>, title |-> <<>>]

\* the search text of a record with these fields
SearchText(artist, title, filename) == lower(artist \o <<" ">> \o title \o <<" ">> \o filename)

\* AudioMetadataExtractor.extract (core.py:336-393)
extract(file) ==
    LET filename == basename(file.path)
        artist == TagsOf(file).artist
        title == IF TagsOf(file).title = <<>>
                 THEN infer_title_from_filename(filename, artist)
                 ELSE TagsOf(file).title
    IN [path |-> file.path, filename |-> filename,
        artist |-> strip(artist), title |-> strip(title),
        search_text |-> SearchText(artist, title, filename)]

\* the pieces file names are made of, and the names of up to n pieces
Pieces == {<<"a">>, <<"B">>, <<" ">>, Separator}

RECURSIVE NamesOf(_)
NamesOf(n) ==
    IF n = 0 THEN {<<>>}
    ELSE NamesOf(n - 1) \cup {s \o p : s \in NamesOf(n - 1), p \in Pieces}

TagValues == {<<>>, <<"A">>}

InMusic(stem, ext) == Music \o <<"/">> \o stem \o <<ext>>

\* a set as a list, in the order os.walk lists it
RECURSIVE ListOf(_)
ListOf(set) ==
    IF set = {} THEN <<>>
    ELSE LET x == CHOOSE y \in set : TRUE IN <<x>> \o ListOf(set \ {x})

\* the previous request, before any
NoEdit == [op |-> "none", paths |-> <<>>, artist |-> <<>>, title |-> <<>>, done |-> {},
           moved |-> {}]

\* a scan of a directory that meets no failure (core.py:636-669): the records
\* outside it are kept, every file under it is extracted, appended and
\* saved
EditScan(root_dir) ==
    /\ started < MaxEdits
    /\ started' = started + 1
    /\ LET Outside(f) == ~startswith(f.path, root_dir)
           found == ListOf({f \in disk : Under(f.path, root_dir)})
           batch == [k \in 1..Len(found) |-> extract(found[k])]
       IN /\ files' = SelectPos(files, Outside) \o batch
          /\ db' = batch_save(db, batch, 0).rows
    /\ call' = [NoEdit EXCEPT !.op = "scan"]
    /\ UNCHANGED <<last, disk, candidates, status, sc, score, cl, results, an, mj, cfg>>

\* one file of any name and any tags, not scanned yet
InitExtract ==
    /\ db = {}
    /\ last = [p \in AllFiles |-> NoRow]
    /\ call = NoEdit
    /\ files = <<>>
    /\ candidates = <<>>
    /\ status = "idle"
    /\ sc = [t \in Workers |-> Idle]
    /\ started = 0
    /\ score = <<>>
    /\ cl = <<>>
    /\ results = <<>>
    /\ an = <<>>
    /\ mj = <<>>
    /\ cfg = <<>>
    /\ \E stem \in NamesOf(MaxPieces) \ {<<>>}, artist \in TagValues, title \in TagValues :
          disk = {[path |-> InMusic(stem, ".mp3"), artist |-> artist, title |-> title]}

NextExtract == EditScan(Music)

SpecExtract == InitExtract /\ [][NextExtract]_vars

\* the file on disk a record was extracted from
FileOf(rec) == CHOOSE f \in disk : f.path = rec.path

\* C28: without a title tag the stem is split at the first " - ": the left
\* part is the artist if the file has no artist tag, all that follows the
\* separator is the title; without separator the whole stem is the title
\* and the artist stays what the tag says
C28_SplitsStemAtFirstSeparator ==
    \A k \in DOMAIN files :
        LET rec == files[k]
            file == FileOf(rec)
            stem == splitext(rec.filename).stem
            i == IndexOf(stem, Separator)
        IN file.title = <<>> =>
              IF i # 0
              THEN /\ rec.artist = IF file.artist # <<>> THEN file.artist
                                   ELSE strip(SubSeq(stem, 1, i - 1))
                   /\ rec.title = strip(SubSeq(stem, i + Len(Separator), Len(stem)))
              ELSE /\ rec.artist = file.artist
                   /\ rec.title = strip(stem)


(***************************************************************************)
(* batch_update_metadata and batch_rename_files (SpecEdit).                *)
(***************************************************************************)
\* the file at a path, and whether there is one (os.path.exists)
OnDisk(d, path) == \E f \in d : f.path = path
DiskFile(d, path) == CHOOSE f \in d : f.path = path

\* the first record of the working set with this path is changed by Change;
\* the loop breaks after it (core.py:1027-1037, 1102-1105)
RECURSIVE FirstMatch(_, _)
FirstMatch(list, path) ==
    IF list = <<>> THEN 0
    ELSE IF Head(list).path = path THEN 1
    ELSE LET k == FirstMatch(Tail(list), path) IN IF k = 0 THEN 0 ELSE k + 1

\* a truthy value replaces the field, an empty one leaves it (core.py:1015-1022)
Given(new, old) == IF new # <<>> THEN new ELSE old

\* the body of the loop of batch_update_metadata for one path
\* (core.py:1004-1039): st is the disk and the working set so far, fails
\* says that mutagen raises on this file
UpdateOne(st, path, artist, title, fails) ==
    IF ~OnDisk(st.disk, path) \/ path[Len(path)] \notin {".mp3", ".flac"} \/ fails
    THEN st
    ELSE LET file == DiskFile(st.disk, path)
             k == FirstMatch(st.files, path)
         IN [disk |-> (st.disk \ {file})
                        \cup {[file EXCEPT !.artist = Given(artist, @),
                                           !.title = Given(title, @)]},
             files |-> IF k = 0 THEN st.files
                       ELSE [st.files EXCEPT ![k] = [@ EXCEPT !.artist = Given(artist, @),
                                                              !.title = Given(title, @)]],
             done |-> st.done \cup {path}]

RECURSIVE UpdateAll(_, _, _, _, _)
UpdateAll(st, file_paths, artist, title, failing) ==
    IF file_paths = <<>> THEN st
    ELSE UpdateAll(UpdateOne(st, Head(file_paths), artist, title, Head(file_paths) \in failing),
                   Tail(file_paths), artist, title, failing)

NewValues == {<<>>, <<"B">>}

\* POST /api/metadata/update: batch_update_metadata (core.py:993-1041)
BatchUpdateMetadata ==
    /\ started < MaxEdits
    /\ started' = started + 1
    /\ \E targets \in SUBSET {f.path : f \in disk}, artist \in NewValues, title \in NewValues :
       \E failing \in SUBSET targets :
          LET file_paths == ListOf(targets)
              st == UpdateAll([disk |-> disk, files |-> files, done |-> {}],
                              file_paths, artist, title, failing)
          IN /\ targets # {}
             /\ disk' = st.disk
             /\ files' = st.files
             /\ call' = [NoEdit EXCEPT !.op = "update", !.paths = file_paths,
                                       !.artist = artist, !.title = title, !.done = st.done]
    /\ UNCHANGED <<db, last, candidates, status, sc, score, cl, results, an, mj, cfg>>

\* str.replace
RECURSIVE replace(_, _, _)
replace(s, old, new) ==
    LET i == IndexOf(s, old)
    IN IF i = 0 THEN s
       ELSE SubSeq(s, 1, i - 1) \o new \o replace(SubSeq(s, i + Len(old), Len(s)), old, new)

\* clean_tag of batch_rename_files (core.py:1056-1059); None is the empty text
clean_tag(text) ==
    replace(replace(replace(text, <<" ", "/", " ">>, <<" ", "&", " ">>),
                    <<"/">>, <<" ", "&", " ">>),
            <<";">>, <<" ", "&", " ">>)

Unknown == <<"U">>

\* safe_meta (core.py:1061-1066)
safe_meta(meta) ==
    [artist |-> IF clean_tag(meta.artist) # <<>> THEN clean_tag(meta.artist) ELSE Unknown,
     title |-> IF clean_tag(meta.title) # <<>> THEN clean_tag(meta.title) ELSE meta.filename]

\* the patterns of the requests: "{artist} - {title}", "{title}" and
\* "{year}", a field safe_meta does not have; a pattern is the list of its
\* fields and texts
PatternArtistTitle == <<[field |-> "artist", text |-> <<>>], [field |-> "", text |-> Separator],
                        [field |-> "title", text |-> <<>>]>>
PatternTitle == <<[field |-> "title", text |-> <<>>]>>
PatternYear == <<[field |-> "year", text |-> <<>>]>>
Patterns == {PatternArtistTitle, PatternTitle, PatternYear}

\* pattern.format(**safe_meta) raises KeyError (core.py:1069-1073)
FormatFails(pattern) == \E k \in DOMAIN pattern : pattern[k].field \notin {"", "artist", "title"}

RECURSIVE format(_, _)
format(pattern, m) ==
    IF pattern = <<>> THEN <<>>
    ELSE (IF Head(pattern).field = "" THEN Head(pattern).text
          ELSE IF Head(pattern).field = "artist" THEN m.artist ELSE m.title)
         \o format(Tail(pattern), m)

\* the characters removed from the new name (core.py:1076-1078)
InvalidChars == {"<", ">", ":", "\"", "/", "\\", "|", "?", "*"}
RemoveInvalid(s) == LET Valid(c) == c \notin InvalidChars IN SelectPos(s, Valid)

\* os.path.dirname
dirname(path) == SubSeq(path, 1, Len(path) - Len(basename(path)) - 1)

\* " (1)", " (2)", ...: the suffix of the n-th attempt
CounterText == <<"(1)", "(2)", "(3)", "(4)">>

\* mutant: the first name is taken, whether a file has it or not
FirstPath(d, path, dir_name, base, ext, counter) == dir_name \o <<"/">> \o base \o <<ext>>

\* the loop that looks for a free name (core.py:1089-1092)
RECURSIVE FreePath(_, _, _, _, _, _)
FreePath(d, path, dir_name, base, ext, counter) ==
    LET new_path == IF counter = 0 THEN dir_name \o <<"/">> \o base \o <<ext>>
                    ELSE dir_name \o <<"/">> \o base \o <<" ", CounterText[counter]>> \o <<ext>>
    IN IF OnDisk(d, new_path) /\ new_path # path
       THEN FreePath(d, path, dir_name, base, ext, counter + 1)
       ELSE new_path

\* the new path of a file under a pattern (core.py:1053-1092)
NewPath(d, path, pattern) ==
    LET meta == extract(DiskFile(d, path))
        new_filename_base == strip(RemoveInvalid(format(pattern, safe_meta(meta))))
    IN FreePath(d, path, dirname(path), new_filename_base, path[Len(path)], 0)

\* os.rename(path, new_path): a file that had the new path is replaced
os_rename(d, file, new_path) ==
    {f \in d : f.path \notin {file.path, new_path}} \cup {[file EXCEPT !.path = new_path]}

\* the body of the loop of batch_rename_files for one path (core.py:1048-1109)
RenameOne(st, path, pattern) ==
    IF ~OnDisk(st.disk, path) \/ FormatFails(pattern) THEN st
    ELSE LET new_path == NewPath(st.disk, path, pattern)
             file == DiskFile(st.disk, path)
             moved == [file EXCEPT !.path = new_path]
             new_meta == extract(moved)
             k == FirstMatch(st.files, path)
         IN IF new_path = path THEN st
            ELSE [disk |-> os_rename(st.disk, file, new_path),
                  rows |-> save_metadata(delete_by_path(st.rows, path), new_meta, FALSE).rows,
                  files |-> IF k = 0 THEN st.files ELSE [st.files EXCEPT ![k] = new_meta],
                  moved |-> st.moved \cup {<<path, new_path>>}]

RECURSIVE RenameAll(_, _, _)
RenameAll(st, paths, pattern) ==
    IF paths = <<>> THEN st
    ELSE RenameAll(RenameOne(st, Head(paths), pattern), Tail(paths), pattern)

\* POST /api/files/rename: batch_rename_files (core.py:1044-1111)
BatchRenameFiles ==
    /\ started < MaxEdits
    /\ started' = started + 1
    /\ \E targets \in SUBSET {f.path : f \in disk}, pattern \in Patterns :
          LET paths == ListOf(targets)
              st == RenameAll([disk |-> disk, rows |-> db, files |-> files, moved |-> {}],
                              paths, pattern)
          IN /\ targets # {}
             /\ disk' = st.disk
             /\ db' = st.rows
             /\ files' = st.files
             /\ call' = [NoEdit EXCEPT !.op = "rename", !.paths = paths, !.moved = st.moved]
    /\ UNCHANGED <<last, candidates, status, sc, score, cl, results, an, mj, cfg>>

\* the library of SpecEdit: a file named "a - B" without tags, a file "B"
\* with an artist tag and a file "a" with both tags
EditPool ==
    {[path |-> InMusic(<<"a">> \o Separator \o <<"B">>, ".mp3"), artist |-> <<>>, title |-> <<>>],
     [path |-> InMusic(<<"B">>, ".mp3"), artist |-> <<"a">>, title |-> <<>>],
     [path |-> InMusic(<<"a">>, ".mp3"), artist |-> <<"A">>, title |-> <<"A">>]}

InitEdit ==
    /\ db = {}
    /\ last = [p \in AllFiles |-> NoRow]
    /\ call = NoEdit
    /\ files = <<>>
    /\ candidates = <<>>
    /\ status = "idle"
    /\ sc = [t \in Workers |-> Idle]
    /\ started = 0
    /\ score = <<>>
    /\ cl = <<>>
    /\ results = <<>>
    /\ an = <<>>
    /\ mj = <<>>
    /\ cfg = <<>>
    /\ disk \in SUBSET EditPool

NextEdit ==
    \/ EditScan(Music)
    \/ BatchUpdateMetadata
    \/ BatchRenameFiles

SpecEdit == InitEdit /\ [][NextEdit]_vars

\* the search text of a record is made of its own fields
Consistent(rec) == rec.search_text = SearchText(rec.artist, rec.title, rec.filename)

\* C29: in the working set and in the store, the search text of every
\* record is lower(artist + " " + title + " " + filename) of that record
C29_SearchTextMatchesFields ==
    /\ \A k \in DOMAIN files : Consistent(files[k])
    /\ \A row \in db : Consistent(row)

\* the record carries the values of the latest update request
Carries(rec) ==
    /\ call'.artist # <<>> => rec.artist = call'.artist
    /\ call'.title # <<>> => rec.title = call'.title

\* C30: after an update the working-set record and the store row of every
\* updated path carry the new values; after a rename no record is left
\* under the old path, and the store and the working set that had one have
\* one under the new path (a path that another file of the same request
\* took over, or left again, aside)
C30_EditsReachStoreAndWorkingSet ==
    [][/\ call'.op = "update" =>
            \A path \in call'.done :
                /\ \A k \in DOMAIN files' : files'[k].path = path => Carries(files'[k])
                /\ \A row \in db' : row.path = path => Carries(row)
       /\ call'.op = "rename" =>
            \A m \in call'.moved :
                /\ (\A n \in call'.moved : n[2] # m[1]) =>
                      /\ \A k \in DOMAIN files' : files'[k].path # m[1]
                      /\ \A row \in db' : row.path # m[1]
                /\ (\A n \in call'.moved : n[1] # m[2]) =>
                      /\ \E row \in db' : row.path = m[2]
                      /\ (\E k \in DOMAIN files : files[k].path = m[1])
                            => \E k \in DOMAIN files' : files'[k].path = m[2]]_vars


\* a request to rename has been served
RenameStep == call'.op = "rename"

\* C31: a rename never overwrites a file: after batch_rename_files every
\* file is still on disk, each under a name of its own, and the files that
\* were not moved are where they were
C31_RenameNeverOverwrites ==
    [][RenameStep =>
          /\ Cardinality(disk') = Cardinality(disk)
          /\ Cardinality({f.path : f \in disk'}) = Cardinality(disk')
          /\ \A f \in disk :
                (\A m \in call'.moved : m[1] # f.path) => f \in disk'
          /\ \A m \in call'.moved :
                \E f \in disk, g \in disk' :
                    /\ f.path = m[1]
                    /\ g.artist = f.artist /\ g.title = f.title
                    /\ g.path = m[2] \/ (\E n \in call'.moved : n[1] = m[2])]_vars

\* three files whose pattern gives the same name are on disk as "B",
\* "B (1)" and "B (2)"
C31_Witness ==
    /\ call.op = "rename"
    /\ Cardinality(call.moved) = 2
    /\ {f.path : f \in disk} =
          {InMusic(<<"B">>, ".mp3"), InMusic(<<"B", " ", "(1)">>, ".mp3"),
           InMusic(<<"B", " ", "(2)">>, ".mp3")}


\* every member of a group after the first is above the threshold against
\* the first
Anchored(group, Sim(_, _), threshold) ==
    \A k \in 2..Len(group) : Sim(group[1], group[k]) > threshold

\* C32: in every candidate group, emitted or still open, of either pass,
\* each member other than the first scores above the pass's threshold
\* against the first member of the group
C32_MembersMatchAnchor ==
    /\ \A k \in 1..Len(candidates) : Anchored(candidates[k], Similarity, RATIO_THRESHOLD)
    /\ \A k \in 1..Len(cl.candidates_opt) :
          Anchored(cl.candidates_opt[k], SimilarityOpt, TOKEN_SET_THRESHOLD)
    /\ cl.pc = "core_loop" =>
          /\ Anchored(cl.g.current_group, Similarity, RATIO_THRESHOLD)
          /\ \A k \in 1..Len(cl.g.candidates) :
                Anchored(cl.g.candidates[k], Similarity, RATIO_THRESHOLD)
    /\ cl.pc = "opt_loop" =>
          /\ Anchored(cl.g.current_group, SimilarityOpt, TOKEN_SET_THRESHOLD)
          /\ \A k \in 1..Len(cl.g.candidates) :
                Anchored(cl.g.candidates[k], SimilarityOpt, TOKEN_SET_THRESHOLD)

\* a chain a ~ b ~ c with c not similar to a: the pass of core.py has
\* grouped a with b and left c out
C32_Witness ==
    /\ cl.pc = "opt"
    /\ Len(cl.input) = 3
    /\ \E a, b, c \in Range(cl.input) :
          /\ TitleKey(a) < TitleKey(b) /\ TitleKey(b) < TitleKey(c)
          /\ Similarity(a, b) > RATIO_THRESHOLD
          /\ Similarity(b, c) > RATIO_THRESHOLD
          /\ Similarity(a, c) <= RATIO_THRESHOLD
          /\ candidates = <<  <<a, b>>  >>


\* ceil(n / b)
Ceil(n, b) == (n + b - 1) \div b

\* the requests of a run that list the candidate group at index k
RequestsListing(a, k) ==
    {r \in 1..Len(an.th[a].sent) :
        \E idx \in 1..Len(an.th[a].sent[r]) : an.th[a].sent[r][idx] = candidates[k]}

\* the run of thread a has been through its loop
LoopDone(a) == an.th[a].pc = "done" /\ status = "done"

\* C33: no request of a run lists more than AI_BATCH_SIZE groups, request
\* r lists the groups at the indexes that follow those of request r - 1,
\* and a run that has been through its loop over n candidate groups has
\* sent ceil(n / AI_BATCH_SIZE) requests, each group listed by exactly one
C33_ConsecutiveBatches ==
    LET sent == an.th["a1"].sent IN
    /\ \A r \in 1..Len(sent) :
          /\ Len(sent[r]) <= AI_BATCH_SIZE
          /\ sent[r] = Slice(candidates, (r - 1) * AI_BATCH_SIZE, r * AI_BATCH_SIZE)
    /\ LoopDone("a1") =>
          /\ Len(sent) = Ceil(Len(candidates), AI_BATCH_SIZE)
          /\ \A k \in 1..Len(candidates) : Cardinality(RequestsListing("a1", k)) = 1

\* a run over more groups than one batch holds: two requests, the second
\* with the rest
C33_Witness ==
    /\ LoopDone("a1")
    /\ Len(candidates) = AI_BATCH_SIZE + 1
    /\ Len(an.th["a1"].sent) = 2
    /\ Len(an.th["a1"].sent[2]) = 1

\* a run over no group sends nothing and ends in done
C33_WitnessEmpty ==
    /\ LoopDone("a1")
    /\ candidates = <<>>
    /\ an.th["a1"].sent = <<>>

(* C34: state.results never holds two entries for the same candidate        *)
(* group.                                                                   *)
C34_OneResultPerGroup ==
    \A m, n \in 1..Len(results) : m # n => results[m].files # results[n].files


\* the step in which the run of thread a ends
RunEnds35(a) == an.th[a].pc # "done" /\ an'.th[a].pc = "done"

\* a run without an API key: error, no request, results and candidates as
\* they were
NoKeyOutcome(a) ==
    /\ status' = "error"
    /\ an'.th[a].sent = <<>>
    /\ results' = results
    /\ candidates' = candidates

\* C35 as stated: a run without an API key ends in error, sends no request
\* and leaves results and candidates unchanged; a run with a key ends with
\* status done
C35_KeyEndsDone ==
    [][RunEnds35("a1") =>
          IF ~an.api_key THEN NoKeyOutcome("a1") ELSE status' = "done"]_vars

\* C35, amended: a run without an API key ends in error, sends no request
\* and leaves results and candidates unchanged; a run with a key ends with
\* status done when it reached its loop, also when every batch failed, and
\* with status error when setting up the client raised; it never ends with
\* status analyzing
C35_KeyEndsDoneOrInitError ==
    [][RunEnds35("a1") =>
          IF ~an.api_key THEN NoKeyOutcome("a1")
          ELSE /\ an.th["a1"].pc = "loop" => status' = "done"
               /\ an.th["a1"].pc = "ready" =>
                     status' = "error" /\ an'.th["a1"].sent = <<>>
               /\ status' # "analyzing"]_vars

\* a run with a key whose two batches both failed has ended in done
C35_Witness ==
    /\ an.api_key
    /\ an.th["a1"].pc = "done"
    /\ Len(an.th["a1"].sent) = 2
    /\ an.th["a1"].failed = 2
    /\ status = "done"

\* a run without a key has ended in error, the candidates still there
C35_WitnessNoKey ==
    /\ ~an.api_key
    /\ an.th["a1"].pc = "done"
    /\ status = "error"
    /\ candidates # <<>>
    /\ results # <<>>


\* the places of a list of candidate groups: group and position in it
Places(groups) ==
    UNION {{<<k, m>> : m \in 1..Len(groups[k])} : k \in 1..Len(groups)}

\* no file has two places in the groups
Disjoint(groups) ==
    \A p1, p2 \in Places(groups) :
        p1 # p2 => groups[p1[1]][p1[2]].path # groups[p2[1]][p2[2]].path

(* C36: the candidate groups that a scan produced, with no other scan      *)
(* started before or during it, are pairwise disjoint, and no file is       *)
(* twice in one group.                                                      *)
C36_GroupsDisjoint ==
    started <= 1 => Disjoint(candidates)

\* the same over lists without a repeated record: the passes on their own
C36_PassKeepsDisjoint ==
    Disjoint(candidates) /\ Disjoint(cl.candidates_opt)


\* the step in which a quality dedup or a short-clip purge ends
PurgeEnds(j) ==
    Deletes(j) /\ mj.th[j].task \in {"dedupe_quality", "clean_short"}

(* C37: quality dedup and short-clip purge take the store row of a file     *)
(* only if the file was deleted: a file whose os.remove failed is still on   *)
(* disk with its row still in the store, and the count of the job is the     *)
(* number of files removed.                                                  *)
C37_RowGoesOnlyWithFile ==
    [][PurgeEnds("j1") =>
          /\ \A f \in mj.tree :
                (HasRow(db, f) /\ ~HasRow(db', f)) => f \notin mj'.tree
          /\ \A q \in mj'.th["j1"].failed :
                FileAt(q) \in mj.tree =>
                    /\ FileAt(q) \in mj'.tree
                    /\ HasRow(db, FileAt(q)) => HasRow(db', FileAt(q))
          /\ mj'.th["j1"].count = Cardinality(mj.tree \ mj'.tree)]_vars

\* the part of C37 on the files and the count, without the store
C37_FileStaysAndCountRight ==
    [][PurgeEnds("j1") =>
          /\ \A q \in mj'.th["j1"].failed : FileAt(q) \in mj.tree => FileAt(q) \in mj'.tree
          /\ mj'.th["j1"].count = Cardinality(mj.tree \ mj'.tree)]_vars


-----------------------------------------------------------------------------
(* SpecDelete: delete_file and the two purging jobs over a library that a  *)
(* scan has read: state.files holds a record per supported file and        *)
(* state.candidates the groups of the clustering pass                      *)

DeletePool == {f \in Pool : f.stem = "a" /\ f.ext \in SUPPORTED_FORMATS}

\* state.files after a scan of the library root
Scanned(tree) ==
    LET paths == Walk(tree, Music, SUPPORTED_FORMATS)
    IN [k \in 1..Len(paths) |-> RowOf(FileAt(paths[k]))]

InitDelete ==
    /\ last = [p \in AllFiles |-> NoRow]
    /\ call = NoCall
    /\ disk = AllFiles
    /\ status = "idle"
    /\ sc = [t \in Workers |-> Idle]
    /\ started = 0
    /\ score = <<>>
    /\ cl = <<>>
    /\ results = <<>>
    /\ an = <<>>
    /\ cfg = <<>>
    /\ \E tree \in SUBSET DeletePool :
          /\ db = {RowOf(f) : f \in tree}
          /\ files = Scanned(tree)
          /\ candidates = cluster(Scanned(tree))
          /\ mj = [tree |-> tree, side |-> {}, dirs |-> AllDirs, art |-> {},
                   min_duration |-> DEFAULT_MIN_DURATION, runs |-> 0,
                   last_run |-> [task \in Tasks |-> FALSE], prev |-> NoRun,
                   th |-> [j \in JobWorkers |-> JobIdle]]

\* delete_file(path) (core.py:1114-1124); remove_fails: os.remove raises,
\* the handler logs and returns False
DeleteFile(path, remove_fails) ==
    /\ mj.runs < MaxJobs
    /\ LET on_disk == \E f \in mj.tree : f.path = path
       IN IF on_disk /\ remove_fails
          THEN /\ mj' = [mj EXCEPT !.runs = @ + 1]
               /\ UNCHANGED <<db, files>>
          ELSE /\ mj' = [mj EXCEPT !.runs = @ + 1,
                                   !.tree = {f \in @ : f.path # path}]
               /\ db' = delete_by_path(db, path)
               /\ files' = SelectSeq(files, LAMBDA f : f.path # path)
    /\ UNCHANGED <<last, call, disk, candidates, status, sc, started, score, cl, results,
                   an, cfg>>

NextDelete ==
    \/ \E path \in {f.path : f \in DeletePool}, remove_fails \in BOOLEAN :
          DeleteFile(path, remove_fails)
    \/ \E target_dir \in JobDirs : DedupeWalk("j1", target_dir)
    \/ DedupeProcess("j1")
    \/ \E target_dir \in JobDirs : CleanShortWalk("j1", target_dir)
    \/ CleanShortDelete("j1")
    \/ JobJoin("j1")

SpecDelete == InitDelete /\ [][NextDelete]_vars

\* the working set or a candidate group refers to the path
Refers(fs, cands, path) ==
    \/ \E k \in 1..Len(fs) : fs[k].path = path
    \/ \E pl \in Places(cands) : cands[pl[1]][pl[2]].path = path

(* C38: after a step of a maintenance job or of delete_file that removed a  *)
(* file, no record of state.files and no member of a group of              *)
(* state.candidates has the path of that file.                             *)
C38_NoRecordOfDeletedFile ==
    [][\A f \in mj.tree \ mj'.tree : ~Refers(files', candidates', f.path)]_vars

\* the part that holds: delete_file takes the record out of state.files
C38_DeleteFileClearsFiles ==
    [][(\A j \in JobWorkers : mj'.th[j] = mj.th[j]) =>
          \A f \in mj.tree \ mj'.tree : ~Refers(files', <<>>, f.path)]_vars


-----------------------------------------------------------------------------
(* SpecRace: two runs of quality dedup that overlap, a manual one          *)
(* (main.py:264-273) and a scheduled one, each a thread of its own with no *)
(* lock.  process_group is stepped: one step per os.path.getsize of the    *)
(* sort, one per os.remove.                                                *)

RacePool == {f \in Range(Shelf) : f.stem = "a" /\ f.ext \in SUPPORTED_FORMATS}

InitRace ==
    /\ last = [p \in AllFiles |-> NoRow]
    /\ call = NoCall
    /\ disk = AllFiles
    /\ files = <<>>
    /\ candidates = <<>>
    /\ status = "idle"
    /\ sc = [t \in Workers |-> Idle]
    /\ started = 0
    /\ score = <<>>
    /\ cl = <<>>
    /\ results = <<>>
    /\ an = <<>>
    /\ cfg = <<>>
    /\ \E tree \in SUBSET RacePool :
          /\ db = {RowOf(f) : f \in tree}
          /\ mj = [tree |-> tree, side |-> {}, dirs |-> AllDirs, art |-> {},
                   min_duration |-> DEFAULT_MIN_DURATION, runs |-> 0,
                   last_run |-> [task \in Tasks |-> FALSE], prev |-> NoRun,
                   th |-> [j \in JobWorkers |-> JobIdle]]

\* executor.submit(process_group, name, paths) for a group of two or more
\* (core.py:802-806, 839-841)
RaceTake(j, st) ==
    /\ mj.th[j].pc = "dedupe"
    /\ Len(mj.th[j].groups[st]) > 1
    /\ mj' = [mj EXCEPT !.th[j] = [@ EXCEPT !.pc = "sizes", !.paths = mj.th[j].groups[st],
                                            !.groups[st] = <<>>, !.keys = <<>>]]
    /\ UNCHANGED db
    /\ JobsFrame

\* paths.sort(key=quality_score) computes the key of the next path
\* (core.py:786-800, 806)
RaceSize(j) ==
    /\ mj.th[j].pc = "sizes"
    /\ Len(mj.th[j].keys) < Len(mj.th[j].paths)
    /\ mj' = [mj EXCEPT !.th[j].keys =
                 Append(@, quality_score(mj.tree, mj.th[j].paths[Len(@) + 1]))]
    /\ UNCHANGED db
    /\ JobsFrame

\* the sort itself, the keeper and to_delete (core.py:806-813)
RaceSort(j) ==
    /\ mj.th[j].pc = "sizes"
    /\ Len(mj.th[j].keys) = Len(mj.th[j].paths)
    /\ LET paths == mj.th[j].paths
           key == [q \in Range(paths) |->
                      mj.th[j].keys[CHOOSE k \in 1..Len(paths) : paths[k] = q]]
           sorted == SortBy(paths, key)
           to_delete == SubSeq(sorted, 1, Len(sorted) - 1)
       IN mj' = [mj EXCEPT !.th[j] = [@ EXCEPT !.pc = "removing", !.to_delete = to_delete,
                                               !.pending = to_delete,
                                               !.count = @ + Len(to_delete)]]
    /\ UNCHANGED db
    /\ JobsFrame

\* os.remove of the next path of to_delete (core.py:816-821); it raises on
\* a path that is gone, and when remove_fails
RaceRemove(j, remove_fails) ==
    /\ mj.th[j].pc = "removing"
    /\ mj.th[j].pending # <<>>
    /\ LET q == Head(mj.th[j].pending)
           raises == remove_fails \/ FileAt(q) \notin mj.tree
       IN mj' = [mj EXCEPT !.tree = IF raises THEN @ ELSE @ \ {FileAt(q)},
                           !.th[j] = [@ EXCEPT !.pending = Tail(@),
                                               !.failed = IF raises THEN @ \cup {q} ELSE @,
                                               !.count = IF raises THEN @ - 1 ELSE @]]
    /\ UNCHANGED db
    /\ JobsFrame

\* meta_db.delete_batch(to_delete), the end of process_group (core.py:823-824)
RaceBatch(j) ==
    /\ mj.th[j].pc = "removing"
    /\ mj.th[j].pending = <<>>
    /\ db' = delete_batch(db, mj.th[j].to_delete)
    /\ mj' = [mj EXCEPT !.th[j] = [@ EXCEPT !.pc = "dedupe", !.paths = <<>>, !.keys = <<>>]]
    /\ JobsFrame

\* every group has been processed: the end of the job (core.py:842-849,
\* 1195-1197)
RaceEnd(j) ==
    /\ mj.th[j].pc = "dedupe"
    /\ \A st \in Stems : Len(mj.th[j].groups[st]) <= 1
    /\ mj' = [mj EXCEPT !.last_run["dedupe_quality"] = TRUE,
                        !.prev = [task |-> "dedupe_quality",
                                  target_dir |-> mj.th[j].target_dir,
                                  clean |-> mj.th[j].failed = {}],
                        !.th[j] = [@ EXCEPT !.pc = "done"]]
    /\ UNCHANGED db
    /\ JobsFrame

NextRace ==
    \E j \in JobWorkers :
        \/ \E target_dir \in JobDirs : DedupeWalk(j, target_dir)
        \/ \E st \in Stems : RaceTake(j, st)
        \/ RaceSize(j)
        \/ RaceSort(j)
        \/ \E remove_fails \in BOOLEAN : RaceRemove(j, remove_fails)
        \/ RaceBatch(j)
        \/ RaceEnd(j)
        \/ JobJoin(j)

SpecRace == InitRace /\ [][NextRace]_vars

\* the supported files with stem st that run j walked
WalkedOf(j, st) ==
    {f \in mj.th[j].walked :
        /\ f.stem = st /\ f.ext \in SUPPORTED_FORMATS
        /\ Under(f.path, mj.th[j].target_dir)}

(* C39: for every run of quality dedup, started or ended, and every stem    *)
(* with a supported file under the run's directory when the run walked it,  *)
(* a supported file with that stem is on disk, whatever another run of      *)
(* quality dedup does meanwhile and wherever the files of the stem live.    *)
C39_KeepsOnePerStem ==
    \A j \in JobWorkers : \A st \in Stems :
        (mj.th[j].task = "dedupe_quality" /\ WalkedOf(j, st) # {}) =>
            \E f \in mj.tree : f.stem = st /\ f.ext \in SUPPORTED_FORMATS

\* two runs that overlapped have ended; the stem had files in three
\* directories, two of them with the best key, and the second run met a
\* file the first had removed
C39_Witness ==
    /\ mj.th["j1"].pc = "done" /\ mj.th["j2"].pc = "done"
    /\ Cardinality(WalkedOf("j1", "a")) = 3
    /\ WalkedOf("j1", "a") = WalkedOf("j2", "a")
    /\ Cardinality({DirOf(f.path) : f \in WalkedOf("j1", "a")}) = 3
    /\ mj.th["j2"].failed # {}
    /\ mj.th["j1"].count = 2
    /\ Cardinality({f \in mj.tree : f.stem = "a"}) = 1

====
